---- MODULE Spec2Model ----
(***************************************************************************)
(* pdftts: segmented speech playback of the text recognised on a PDF page. *)
(*                                                                         *)
(* Execution contexts (src/main.py):                                       *)
(*   thread 0      the Qt main thread: event loop, slots of MainWindow     *)
(*   thread g > 0  the threading.Thread of recognition pass g, running     *)
(*                 MainWindow._run_ocr, which itself calls                 *)
(*                 _start_tts_with_segments (and through it stop_reading)  *)
(*   worker g      the QThread TTSWorker created by pass g, running run()  *)
(*                                                                         *)
(* Signals emitted inside TTSWorker.run are delivered to the slots of      *)
(* MainWindow through the main thread's event queue (queued connection);   *)
(* a signal emitted on a worker by the main thread itself is a direct call *)
(* of the slot.                                                            *)
(*                                                                         *)
(* pc[t] is the call stack of thread t, innermost frame first.  A frame is *)
(* the label of the next step of that call.  The engine calls that last    *)
(* (say/runAndWait) have a frame of their own: "speaking", "ping",         *)
(* "pretest", "pretest2".                                                  *)
(*                                                                         *)
(* Time: the polling loop of run() sleeps 100 ms per iteration.  run_Poll  *)
(* is the run of iterations up to the bound in which the worker saw no     *)
(* flag set (30 s); it is enabled only when no thread has an immediate     *)
(* step to take (a runnable thread does not stay idle for seconds).  The   *)
(* engine calls, recognition and the user take arbitrarily long.           *)
(***************************************************************************)
EXTENDS Integers, Sequences, FiniteSets, TLC

\* ---------------------------------------------------------------- bounds
MaxGen == 2
MaxSegs == 2
MaxFail == 2
MaxOcr == 2
MaxPages == 2
MaxZoom == 2
MaxLines == 2
MaxPoints == 2

\* ------------------------------------------------------ program constants
max_timeout_counts == 300

Gens == 1..MaxGen
Threads == 0..MaxGen
MainThread == 0

VARIABLES
    was_stopped,        \* module global was_stopped
    wpc,                \* position of each TTSWorker: none / top / wait / done
    wi,                 \* loop variable i of run()
    nsegs,              \* len(text_segments) of pass g / worker g
    stop_requested,     \* TTSWorker.stop_requested
    segment_completed,  \* TTSWorker.segment_completed
    timeout_counter,    \* local timeout_counter of run()
    trace,              \* history: notifications emitted on each worker
    requests,           \* history: indices of the request_speak emitted
    mainQ,              \* queued signals waiting in the main event loop
    tts_worker,         \* MainWindow.tts_worker (0 = None)
    is_stopping,        \* MainWindow.is_stopping
    tts_engine,         \* MainWindow.tts_engine: "none" or "ok"
    pc,                 \* call stack of each thread
    ret,                \* value returned by the last call of each thread
    req,                \* (worker, index) of the request handled by the main thread
    waitw,              \* worker a thread waits for in stop_reading
    fails,              \* engine failures so far
    aborted,            \* unhandled exception in a slot of the main thread
    highlight_boxes,    \* PDFViewer.highlight_boxes
    current_ocr_boxes,  \* MainWindow.current_ocr_boxes: pass that produced it
    status,             \* last statusBar message
    since_init,         \* history: what happened since _init_tts_engine last ran
    current_page,       \* PDFViewer.current_page
    page_count,         \* len(PDFViewer.pdf_document), 0 with no document
    zoom_factor,        \* PDFViewer.zoom_factor: 1.2^up * 0.8^down
    box_coords,         \* history: argument a caller passed to highlight_text_box last
    page_num,           \* history: argument a caller passed to go_to_page last
    result,             \* _run_ocr: lines the detector returned for the page
    filtered_text_segments, \* _run_ocr: texts of the sequence built from result
    filtered_ocr_boxes, \* _run_ocr: polygons of the sequence built from result
    spoken              \* history: segments for which runAndWait returned

vars == <<was_stopped, wpc, wi, nsegs, stop_requested, segment_completed,
          timeout_counter, trace, requests, mainQ, tts_worker, is_stopping,
          tts_engine, pc, ret, req, waitw, fails, aborted, highlight_boxes,
          current_ocr_boxes, status, since_init, current_page, page_count,
          zoom_factor, box_coords, page_num, result, filtered_text_segments,
          filtered_ocr_boxes, spoken>>

\* the page shown by the PDFViewer, and what its callers passed
viewVars == <<current_page, page_count, zoom_factor, box_coords, page_num>>

\* the detector's result and the sequence _run_ocr builds from it
ocrVars == <<result, filtered_text_segments, filtered_ocr_boxes>>

\* ---------------------------------------------------------------- helpers
Top(t) == Head(pc[t])

NoReq == [w |-> 0, i |-> 0]

\* the Python value None
None == [type |-> "None", items |-> <<>>]

Note(k, i) == [k |-> k, i |-> i]

Event(k, w, i) == [k |-> k, w |-> w, i |-> i]

\* positions in tr of the notifications of kind k
Kinds(tr, k) == {j \in 1..Len(tr) : tr[j].k = k}

\* worker w is inside the for loop of run()
InLoop(w) == wpc[w] \in {"top", "wait"}

\* QThread.isRunning(): started and run() not yet returned
isRunning(w) == w # 0 /\ wpc[w] \in {"top", "wait"}

InFlightLabels == {"speaking", "ping", "pretest", "pretest2"}

\* threads inside say()/runAndWait()
InFlight == {t \in Threads : Top(t) \in InFlightLabels}

\* frames at which a thread waits for something that takes time
BlockedLabels == InFlightLabels \cup {"idle", "ocr", "end"}

ThreadUrgent(t) ==
    CASE Top(t) \in BlockedLabels -> FALSE
      [] Top(t) = "loop" -> mainQ # <<>>
      [] Top(t) = "sr3" -> wpc[waitw[t]] = "done"
      [] OTHER -> TRUE

WorkerUrgent(w) ==
    \/ wpc[w] = "top"
    \/ /\ wpc[w] = "wait"
       /\ \/ segment_completed[w]
          \/ stop_requested[w]
          \/ timeout_counter[w] >= max_timeout_counts

NoUrgent ==
    /\ \A t \in Threads : ~ThreadUrgent(t)
    /\ \A w \in Gens : ~WorkerUrgent(w)

\* nothing refers to the finished worker w any more: the TTSWorker object is
\* unreachable and Python frees it
Collectable(w) ==
    /\ wpc[w] = "done"
    /\ tts_worker # w
    /\ current_ocr_boxes # w
    /\ req.w # w
    /\ \A t \in Threads : waitw[t] # w
    /\ \A k \in 1..Len(mainQ) : mainQ[k].w # w

\* the process runs, and every unreachable worker has been freed
Live == ~aborted /\ \A w \in Gens : ~Collectable(w)

\* nothing has happened to the engine since _init_tts_engine ran: no
\* tts_engine.stop(), no segment timeout, no worker started after a timeout
Fresh == [stopped |-> FALSE, timed_out |-> FALSE, late |-> {}]

\* ------------------------------------------------------------------ Init
Init ==
    /\ was_stopped = FALSE
    /\ wpc = [w \in Gens |-> "none"]
    /\ wi = [w \in Gens |-> 0]
    /\ nsegs = [w \in Gens |-> 0]
    /\ stop_requested = [w \in Gens |-> FALSE]
    /\ segment_completed = [w \in Gens |-> FALSE]
    /\ timeout_counter = [w \in Gens |-> 0]
    /\ trace = [w \in Gens |-> <<>>]
    /\ requests = [w \in Gens |-> <<>>]
    /\ mainQ = <<>>
    /\ tts_worker = 0
    /\ is_stopping = FALSE
    /\ \/ tts_engine = "ok" /\ fails = 0
       \/ tts_engine = "none" /\ fails = 1
    /\ pc = [t \in Threads |-> IF t = MainThread THEN <<"loop">> ELSE <<"idle">>]
    /\ ret = [t \in Threads |-> FALSE]
    /\ req = NoReq
    /\ waitw = [t \in Threads |-> 0]
    /\ aborted = FALSE
    /\ highlight_boxes = <<>>
    /\ current_ocr_boxes = 0
    /\ status = "ready"
    /\ since_init = Fresh
    /\ current_page = 0
    /\ page_count = 0
    /\ zoom_factor = [up |-> 0, down |-> 0]
    /\ box_coords = None
    /\ page_num = 0
    /\ result = <<>>
    /\ filtered_text_segments = <<>>
    /\ filtered_ocr_boxes = <<>>
    /\ spoken = [w \in Gens |-> {}]


\* ------------------------------------------------------------- TTSWorker
Unchanged_main == UNCHANGED <<tts_worker, is_stopping, tts_engine, pc, ret, req,
                              waitw, fails, aborted, highlight_boxes,
                              current_ocr_boxes, status, nsegs>>

\* index carried by text_segment_started for loop index i (lines 49-52)
started_index(i) == IF was_stopped THEN (IF i > 0 THEN i - 1 ELSE 0) ELSE i

\* run() with finished.emit() at the end of the try body instead of in the
\* finally block: a break taken on a stop request skips it
run_finally_try(w, tr, q) ==
    /\ trace' = [trace EXCEPT ![w] =
                    IF stop_requested[w] THEN tr ELSE Append(tr, Note("finished", 0))]
    /\ mainQ' = IF stop_requested[w] THEN q ELSE Append(q, Event("finished", w, 0))
    /\ wpc' = [wpc EXCEPT ![w] = "done"]

\* the finally block of run(): finished.emit(), then run() returns
run_finally(w, tr, q) ==
    /\ trace' = [trace EXCEPT ![w] = Append(tr, Note("finished", 0))]
    /\ mainQ' = Append(q, Event("finished", w, 0))
    /\ wpc' = [wpc EXCEPT ![w] = "done"]

\* the loop of run() with its range test after the body: the body runs for
\* segment 0 of an empty list
run_LoopTop_bodyfirst(w) ==
    /\ wpc[w] = "top"
    /\ Live
    /\ IF (wi[w] >= nsegs[w] /\ wi[w] > 0) \/ stop_requested[w]
       THEN /\ run_finally(w, trace[w], mainQ)
            /\ UNCHANGED <<wi, segment_completed, timeout_counter, requests>>
       ELSE /\ trace' = [trace EXCEPT ![w] =
                            Append(@, Note("started", started_index(wi[w])))]
            /\ segment_completed' = [segment_completed EXCEPT ![w] = FALSE]
            /\ requests' = [requests EXCEPT ![w] = Append(@, wi[w])]
            /\ mainQ' = mainQ \o <<Event("started", w, started_index(wi[w])),
                                   Event("request", w, wi[w])>>
            /\ timeout_counter' = [timeout_counter EXCEPT ![w] = 0]
            /\ wpc' = [wpc EXCEPT ![w] = "wait"]
            /\ UNCHANGED wi
    /\ UNCHANGED <<stop_requested, was_stopped, since_init>>
    /\ Unchanged_main
    /\ UNCHANGED viewVars
    /\ UNCHANGED ocrVars
    /\ UNCHANGED spoken

\* top of the for loop: range exhausted, stop seen, or start of segment i
run_LoopTop(w) ==
    /\ wpc[w] = "top"
    /\ Live
    /\ IF wi[w] >= nsegs[w] \/ stop_requested[w]
       THEN /\ run_finally(w, trace[w], mainQ)
            /\ UNCHANGED <<wi, segment_completed, timeout_counter, requests>>
       ELSE /\ trace' = [trace EXCEPT ![w] =
                            Append(@, Note("started", started_index(wi[w])))]
            /\ segment_completed' = [segment_completed EXCEPT ![w] = FALSE]
            /\ requests' = [requests EXCEPT ![w] = Append(@, wi[w])]
            /\ mainQ' = mainQ \o <<Event("started", w, started_index(wi[w])),
                                   Event("request", w, wi[w])>>
            /\ timeout_counter' = [timeout_counter EXCEPT ![w] = 0]
            /\ wpc' = [wpc EXCEPT ![w] = "wait"]
            /\ UNCHANGED wi
    /\ UNCHANGED <<stop_requested, was_stopped, since_init>>
    /\ Unchanged_main
    /\ UNCHANGED viewVars
    /\ UNCHANGED ocrVars
    /\ UNCHANGED spoken

\* the while loop of lines 58-62 without the counter: the worker polls the
\* two flags for ever
run_Poll_unbounded(w) ==
    /\ wpc[w] = "wait"
    /\ Live
    /\ ~segment_completed[w]
    /\ ~stop_requested[w]
    /\ timeout_counter[w] < max_timeout_counts
    /\ NoUrgent
    /\ UNCHANGED timeout_counter
    /\ UNCHANGED <<wpc, wi, stop_requested, segment_completed, trace, requests,
                   mainQ, was_stopped, since_init>>
    /\ Unchanged_main
    /\ UNCHANGED viewVars
    /\ UNCHANGED ocrVars
    /\ UNCHANGED spoken

\* the while loop of lines 58-62 runs to its bound: in none of the remaining
\* iterations does the worker see a flag set
run_Poll(w) ==
    /\ wpc[w] = "wait"
    /\ Live
    /\ ~segment_completed[w]
    /\ ~stop_requested[w]
    /\ timeout_counter[w] < max_timeout_counts
    /\ NoUrgent
    /\ timeout_counter' = [timeout_counter EXCEPT ![w] = max_timeout_counts]
    /\ UNCHANGED <<wpc, wi, stop_requested, segment_completed, trace, requests,
                   mainQ, was_stopped, since_init>>
    /\ Unchanged_main
    /\ UNCHANGED viewVars
    /\ UNCHANGED ocrVars
    /\ UNCHANGED spoken

\* run() that leaves the for loop after the first segment that was spoken
run_WaitExit_once(w) ==
    /\ wpc[w] = "wait"
    /\ Live
    /\ \/ segment_completed[w]
       \/ stop_requested[w]
       \/ timeout_counter[w] >= max_timeout_counts
    /\ IF stop_requested[w]
       THEN /\ run_finally(w, trace[w], mainQ)
            /\ UNCHANGED <<wi, since_init>>
       ELSE IF timeout_counter[w] >= max_timeout_counts /\ ~segment_completed[w]
       THEN /\ run_finally(w, Append(trace[w], Note("error", wi[w])),
                           Append(mainQ, Event("error", w, wi[w])))
            /\ since_init' = [since_init EXCEPT !.timed_out = TRUE]
            /\ UNCHANGED wi
       ELSE /\ trace' = [trace EXCEPT ![w] = Append(@, Note("segfinished", wi[w]))]
            /\ mainQ' = Append(mainQ, Event("segfinished", w, wi[w]))
            /\ wi' = [wi EXCEPT ![w] = nsegs[w]]
            /\ wpc' = [wpc EXCEPT ![w] = "top"]
            /\ UNCHANGED since_init
    /\ timeout_counter' = [timeout_counter EXCEPT ![w] = 0]
    /\ UNCHANGED <<stop_requested, segment_completed, requests, was_stopped>>
    /\ Unchanged_main
    /\ UNCHANGED viewVars
    /\ UNCHANGED ocrVars
    /\ UNCHANGED spoken

\* the while loop has ended: lines 64-76 (the local timeout_counter is dead
\* from here on and is kept at 0)
run_WaitExit(w) ==
    /\ wpc[w] = "wait"
    /\ Live
    /\ \/ segment_completed[w]
       \/ stop_requested[w]
       \/ timeout_counter[w] >= max_timeout_counts
    /\ IF stop_requested[w]
       THEN /\ run_finally(w, trace[w], mainQ)
            /\ UNCHANGED <<wi, since_init>>
       ELSE IF timeout_counter[w] >= max_timeout_counts /\ ~segment_completed[w]
       THEN /\ run_finally(w, Append(trace[w], Note("error", wi[w])),
                           Append(mainQ, Event("error", w, wi[w])))
            /\ since_init' = [since_init EXCEPT !.timed_out = TRUE]
            /\ UNCHANGED wi
       ELSE /\ trace' = [trace EXCEPT ![w] = Append(@, Note("segfinished", wi[w]))]
            /\ mainQ' = Append(mainQ, Event("segfinished", w, wi[w]))
            /\ wi' = [wi EXCEPT ![w] = @ + 1]
            /\ wpc' = [wpc EXCEPT ![w] = "top"]
            /\ UNCHANGED since_init
    /\ timeout_counter' = [timeout_counter EXCEPT ![w] = 0]
    /\ UNCHANGED <<stop_requested, segment_completed, requests, was_stopped>>
    /\ Unchanged_main
    /\ UNCHANGED viewVars
    /\ UNCHANGED ocrVars
    /\ UNCHANGED spoken

\* the unreachable worker w is freed
collect(w) ==
    /\ ~aborted
    /\ Collectable(w)
    /\ wpc' = [wpc EXCEPT ![w] = "freed"]
    /\ wi' = [wi EXCEPT ![w] = 0]
    /\ nsegs' = [nsegs EXCEPT ![w] = 0]
    /\ stop_requested' = [stop_requested EXCEPT ![w] = FALSE]
    /\ segment_completed' = [segment_completed EXCEPT ![w] = FALSE]
    /\ trace' = [trace EXCEPT ![w] = <<>>]
    /\ requests' = [requests EXCEPT ![w] = <<>>]
    /\ since_init' = [since_init EXCEPT !.late = @ \ {w}]
    /\ UNCHANGED <<was_stopped, timeout_counter, mainQ, tts_worker, is_stopping,
                   tts_engine, pc, ret, req, waitw, fails, aborted,
                   highlight_boxes, current_ocr_boxes, status>>
    /\ UNCHANGED viewVars
    /\ UNCHANGED ocrVars
    /\ spoken' = [spoken EXCEPT ![w] = {}]

\* TTSWorker.on_segment_complete, called by the main thread
on_segment_complete(w) ==
    segment_completed' = [segment_completed EXCEPT ![w] = TRUE]

\* TTSWorker.stop
stop(w) ==
    /\ stop_requested' = [stop_requested EXCEPT ![w] = TRUE]
    /\ was_stopped' = TRUE

\* ------------------------------------------------------ speech engine calls
\* replace the frames of thread t: fr on top of rest
Frames(t, fr, rest) == pc' = [pc EXCEPT ![t] = fr \o rest]

\* _init_tts_engine called by t with f failures so far; cont receives the
\* result.  Construction or setup raises (engine None, False), or the engine
\* is built and the self-test ping starts.
init_tts_engine(t, cont, rest, f) ==
    /\ since_init' = Fresh
    /\ \/ /\ f < MaxFail
          /\ fails' = f + 1
          /\ tts_engine' = "none"
          /\ ret' = [ret EXCEPT ![t] = FALSE]
          /\ Frames(t, <<cont>>, rest)
       \/ /\ fails' = f
          /\ tts_engine' = "ok"
          /\ Frames(t, <<"ping", cont>>, rest)
          /\ ret' = [ret EXCEPT ![t] = FALSE]

\* _init_tts_engine whose except clause does not set tts_engine = None: a
\* failed ping leaves the engine it built
init_tts_engine_ping_keep(t) ==
    /\ Top(t) = "ping"
    /\ Live
    /\ \/ /\ ret' = [ret EXCEPT ![t] = TRUE]
          /\ UNCHANGED <<tts_engine, fails>>
       \/ /\ fails < MaxFail
          /\ fails' = fails + 1
          /\ UNCHANGED tts_engine
          /\ ret' = [ret EXCEPT ![t] = FALSE]
    /\ Frames(t, <<>>, Tail(pc[t]))
    /\ UNCHANGED <<was_stopped, wpc, wi, nsegs, stop_requested, segment_completed,
                   timeout_counter, trace, requests, mainQ, tts_worker,
                   is_stopping, req, waitw, aborted, highlight_boxes,
                   current_ocr_boxes, status>>
    /\ UNCHANGED since_init
    /\ UNCHANGED viewVars
    /\ UNCHANGED ocrVars
    /\ UNCHANGED spoken

\* the ping of _init_tts_engine returns or raises (lines 856-873)
init_tts_engine_ping(t) ==
    /\ Top(t) = "ping"
    /\ Live
    /\ \/ /\ ret' = [ret EXCEPT ![t] = TRUE]
          /\ UNCHANGED <<tts_engine, fails>>
       \/ /\ fails < MaxFail
          /\ fails' = fails + 1
          /\ tts_engine' = "none"
          /\ ret' = [ret EXCEPT ![t] = FALSE]
    /\ Frames(t, <<>>, Tail(pc[t]))
    /\ UNCHANGED <<was_stopped, wpc, wi, nsegs, stop_requested, segment_completed,
                   timeout_counter, trace, requests, mainQ, tts_worker,
                   is_stopping, req, waitw, aborted, highlight_boxes,
                   current_ocr_boxes, status>>
    /\ UNCHANGED since_init
    /\ UNCHANGED viewVars
    /\ UNCHANGED ocrVars
    /\ UNCHANGED spoken

\* _ensure_tts_engine_ready without the test of line 877 and without the
\* probe: it returns True at once
ensure_tts_engine_ready_nocheck(t, cont, rest) ==
    /\ ret' = [ret EXCEPT ![t] = TRUE]
    /\ Frames(t, <<cont>>, rest)
    /\ UNCHANGED <<tts_engine, fails, since_init>>

\* _ensure_tts_engine_ready called by t; cont receives the result
ensure_tts_engine_ready(t, cont, rest) ==
    IF tts_engine = "none"
    THEN init_tts_engine(t, cont, rest, fails)
    ELSE \/ /\ ret' = [ret EXCEPT ![t] = TRUE]
            /\ Frames(t, <<cont>>, rest)
            /\ UNCHANGED <<tts_engine, fails, since_init>>
         \/ /\ fails < MaxFail
            /\ init_tts_engine(t, cont, rest, fails + 1)

\* --------------------------------------------- slots run by the main thread
\* the main thread is in its event loop (or in QApplication.processEvents)
\* and the oldest queued signal is of kind k
Dispatch(k) ==
    /\ Top(MainThread) \in {"loop", "pe"}
    /\ Live
    /\ mainQ # <<>>
    /\ Head(mainQ).k = k
    /\ mainQ' = Tail(mainQ)

\* a highlighted polygon: box index of the boxes of pass p, set on a
\* notification of worker w (history); pass 0 is an empty polygon
Box(p, i, w) == [pass |-> p, index |-> i, by |-> w]

\* the Python value behind a polygon.  A value is None, a list or a tuple; an
\* item of a list or tuple is a list, a tuple or a number, of the length
\* given.  Box i of a pass is the list of four [x, y] lists the detector
\* returned (line 408 of main.py), the polygon of pass 0 is the empty list;
\* a caller of the PDFViewer passes the value itself.
coords(b) ==
    IF "pass" \in DOMAIN b
    THEN [type |-> "list",
          items |-> IF b.pass = 0 THEN <<>>
                    ELSE [k \in 1..4 |-> [type |-> "list", len |-> 2]]]
    ELSE b

\* not box_coords: None and the empty list or tuple are false
falsy(v) == v.type = "None" \/ v.items = <<>>

\* the test of lines 191-194 with the first of its three parts only
invalid_empty(v) == falsy(v)

\* the test of lines 191-194
invalid(v) ==
    \/ falsy(v)
    \/ v.type # "list"
    \/ ~(\A k \in 1..Len(v.items) :
            v.items[k].type \in {"list", "tuple"} /\ v.items[k].len = 2)

\* PDFViewer.highlight_text_box that adds the polygon to the list
highlight_text_box_add(cur, b) == Append(cur, b)

\* PDFViewer.highlight_text_box(b) with highlight_boxes = cur: the new list
highlight_text_box(cur, b) == IF invalid(coords(b)) THEN <<>> ELSE <<b>>

on_text_segment_started ==
    /\ Dispatch("started")
    /\ LET w == Head(mainQ).w
           i == Head(mainQ).i
       IN IF w # tts_worker
          THEN UNCHANGED <<highlight_boxes, status>>
          ELSE IF current_ocr_boxes # 0 /\ i < nsegs[current_ocr_boxes]
          THEN /\ highlight_boxes' =
                      highlight_text_box(<<>>, Box(current_ocr_boxes, i, w))
               /\ status' = "reading"
          ELSE /\ highlight_boxes' = <<>>
               /\ UNCHANGED status
    /\ UNCHANGED <<was_stopped, wpc, wi, nsegs, stop_requested, segment_completed,
                   timeout_counter, trace, requests, tts_worker, is_stopping,
                   tts_engine, pc, ret, req, waitw, fails, aborted,
                   current_ocr_boxes>>
    /\ UNCHANGED since_init
    /\ UNCHANGED viewVars
    /\ UNCHANGED ocrVars
    /\ UNCHANGED spoken

on_text_segment_finished ==
    /\ Dispatch("segfinished")
    /\ LET w == Head(mainQ).w
           i == Head(mainQ).i
       IN IF /\ w = tts_worker
             /\ current_ocr_boxes # 0
             /\ i = nsegs[current_ocr_boxes] - 1
          THEN status' = "reading"
          ELSE UNCHANGED status
    /\ UNCHANGED <<was_stopped, wpc, wi, nsegs, stop_requested, segment_completed,
                   timeout_counter, trace, requests, tts_worker, is_stopping,
                   tts_engine, pc, ret, req, waitw, fails, aborted,
                   highlight_boxes, current_ocr_boxes>>
    /\ UNCHANGED since_init
    /\ UNCHANGED viewVars
    /\ UNCHANGED ocrVars
    /\ UNCHANGED spoken

\* on_tts_finished without the clear_highlights() of line 632
on_tts_finished_keep ==
    /\ Dispatch("finished")
    /\ LET w == Head(mainQ).w
       IN /\ UNCHANGED highlight_boxes
          /\ IF w = tts_worker
             THEN /\ status' = IF stop_requested[w] THEN "stopped" ELSE "done"
                  /\ tts_worker' = 0
             ELSE UNCHANGED <<status, tts_worker>>
    /\ UNCHANGED <<was_stopped, wpc, wi, nsegs, stop_requested, segment_completed,
                   timeout_counter, trace, requests, is_stopping, tts_engine, pc,
                   ret, req, waitw, fails, aborted, current_ocr_boxes>>
    /\ UNCHANGED since_init
    /\ UNCHANGED viewVars
    /\ UNCHANGED ocrVars
    /\ UNCHANGED spoken

\* on_tts_finished, lines 628-645
on_tts_finished ==
    /\ Dispatch("finished")
    /\ LET w == Head(mainQ).w
       IN /\ highlight_boxes' = <<>>
          /\ IF w = tts_worker
             THEN /\ status' = IF stop_requested[w] THEN "stopped" ELSE "done"
                  /\ tts_worker' = 0
             ELSE UNCHANGED <<status, tts_worker>>
    /\ UNCHANGED <<was_stopped, wpc, wi, nsegs, stop_requested, segment_completed,
                   timeout_counter, trace, requests, is_stopping, tts_engine, pc,
                   ret, req, waitw, fails, aborted, current_ocr_boxes>>
    /\ UNCHANGED since_init
    /\ UNCHANGED viewVars
    /\ UNCHANGED ocrVars
    /\ UNCHANGED spoken

\* body of the slot on_tts_error for sender w
on_tts_error_body(w) ==
    /\ highlight_boxes' = <<>>
    /\ IF w = tts_worker
       THEN /\ status' = "error"
            /\ tts_worker' = 0
       ELSE UNCHANGED <<status, tts_worker>>

\* on_tts_error for the error signal a worker emitted in run() (timeout)
on_tts_error ==
    /\ Dispatch("error")
    /\ on_tts_error_body(Head(mainQ).w)
    /\ UNCHANGED <<was_stopped, wpc, wi, nsegs, stop_requested, segment_completed,
                   timeout_counter, trace, requests, is_stopping, tts_engine, pc,
                   ret, req, waitw, fails, aborted, current_ocr_boxes>>
    /\ UNCHANGED since_init
    /\ UNCHANGED viewVars
    /\ UNCHANGED ocrVars
    /\ UNCHANGED spoken

\* on_request_speak acknowledges the request without speaking
Acknowledge(w) ==
    /\ on_segment_complete(w)
    /\ UNCHANGED <<trace, highlight_boxes, status, tts_worker>>

\* on_request_speak that emits error and then calls on_segment_complete, as
\* it does after a successful speech call
EmitError_complete(w, i) ==
    /\ trace' = [trace EXCEPT ![w] = Append(@, Note("error", i))]
    /\ on_tts_error_body(w)
    /\ on_segment_complete(w)

\* on_request_speak emits error on the requesting worker: the slot
\* on_tts_error runs at once, in the main thread
EmitError(w, i) ==
    /\ trace' = [trace EXCEPT ![w] = Append(@, Note("error", i))]
    /\ on_tts_error_body(w)
    /\ UNCHANGED segment_completed

\* on_request_speak, lines 742-776: the three checks, then the engine check
on_request_speak ==
    /\ Dispatch("request")
    /\ LET w == Head(mainQ).w
       IN /\ IF \/ stop_requested[w]
                \/ is_stopping
                \/ (tts_worker # 0 /\ tts_worker # w)
             THEN /\ Acknowledge(w)
                  /\ UNCHANGED <<pc, ret, tts_engine, fails, req, since_init>>
             ELSE /\ req' = [w |-> w, i |-> Head(mainQ).i]
                  /\ ensure_tts_engine_ready(MainThread, "rs1", pc[MainThread])
                  /\ UNCHANGED <<segment_completed, trace, highlight_boxes,
                                 status, tts_worker>>
    /\ UNCHANGED <<was_stopped, wpc, wi, nsegs, stop_requested, timeout_counter,
                   requests, is_stopping, waitw, aborted, current_ocr_boxes>>
    /\ UNCHANGED viewVars
    /\ UNCHANGED ocrVars
    /\ UNCHANGED spoken

\* on_request_speak that calls on_segment_complete before say() as well as
\* after runAndWait()
on_request_speak_say_ackfirst ==
    /\ Top(MainThread) = "rs1"
    /\ Live
    /\ LET w == req.w
           rest == Tail(pc[MainThread])
       IN IF ~ret[MainThread]
          THEN /\ IF ~stop_requested[w] THEN EmitError(w, req.i) ELSE Acknowledge(w)
               /\ Frames(MainThread, <<>>, rest)
               /\ req' = NoReq
          ELSE IF stop_requested[w]
          THEN /\ Acknowledge(w)
               /\ Frames(MainThread, <<>>, rest)
               /\ req' = NoReq
          ELSE IF tts_engine = "none"
          THEN \* self.tts_engine.say raises AttributeError: lines 801-816
               /\ EmitError(w, req.i)
               /\ Frames(MainThread, <<>>, rest)
               /\ req' = NoReq
          ELSE /\ Frames(MainThread, <<"speaking">>, rest)
               /\ on_segment_complete(w)
               /\ UNCHANGED <<trace, highlight_boxes, status, tts_worker, req>>
    /\ ret' = [ret EXCEPT ![MainThread] = FALSE]
    /\ UNCHANGED <<was_stopped, wpc, wi, nsegs, stop_requested, timeout_counter,
                   requests, mainQ, is_stopping, tts_engine, waitw,
                   fails, aborted, current_ocr_boxes>>
    /\ UNCHANGED since_init
    /\ UNCHANGED viewVars
    /\ UNCHANGED ocrVars
    /\ UNCHANGED spoken

\* on_request_speak, lines 776-795: result of the engine check, say()
on_request_speak_say ==
    /\ Top(MainThread) = "rs1"
    /\ Live
    /\ LET w == req.w
           rest == Tail(pc[MainThread])
       IN IF ~ret[MainThread]
          THEN /\ IF ~stop_requested[w] THEN EmitError(w, req.i) ELSE Acknowledge(w)
               /\ Frames(MainThread, <<>>, rest)
               /\ req' = NoReq
          ELSE IF stop_requested[w]
          THEN /\ Acknowledge(w)
               /\ Frames(MainThread, <<>>, rest)
               /\ req' = NoReq
          ELSE IF tts_engine = "none"
          THEN \* self.tts_engine.say raises AttributeError: lines 801-816
               /\ EmitError(w, req.i)
               /\ Frames(MainThread, <<>>, rest)
               /\ req' = NoReq
          ELSE /\ Frames(MainThread, <<"speaking">>, rest)
               /\ UNCHANGED <<segment_completed, trace, highlight_boxes, status,
                              tts_worker, req>>
    /\ ret' = [ret EXCEPT ![MainThread] = FALSE]
    /\ UNCHANGED <<was_stopped, wpc, wi, nsegs, stop_requested, timeout_counter,
                   requests, mainQ, is_stopping, tts_engine, waitw,
                   fails, aborted, current_ocr_boxes>>
    /\ UNCHANGED since_init
    /\ UNCHANGED viewVars
    /\ UNCHANGED ocrVars
    /\ UNCHANGED spoken

\* on_request_speak, lines 795-816: runAndWait returns or raises
on_request_speak_spoken ==
    /\ Top(MainThread) = "speaking"
    /\ Live
    /\ LET w == req.w
       IN \/ /\ Acknowledge(w)
             /\ spoken' = [spoken EXCEPT ![w] = @ \cup {req.i}]
             /\ UNCHANGED fails
          \/ /\ fails < MaxFail
             /\ fails' = fails + 1
             /\ UNCHANGED spoken
             /\ IF stop_requested[w] THEN Acknowledge(w) ELSE EmitError(w, req.i)
    /\ Frames(MainThread, <<>>, Tail(pc[MainThread]))
    /\ req' = NoReq
    /\ UNCHANGED <<was_stopped, wpc, wi, nsegs, stop_requested, timeout_counter,
                   requests, mainQ, is_stopping, tts_engine, ret, waitw,
                   aborted, current_ocr_boxes>>
    /\ UNCHANGED since_init
    /\ UNCHANGED viewVars
    /\ UNCHANGED ocrVars

\* QApplication.processEvents() returns once the queue is empty
processEvents_return ==
    /\ Top(MainThread) = "pe"
    /\ Live
    /\ mainQ = <<>>
    /\ Frames(MainThread, <<>>, Tail(pc[MainThread]))
    /\ UNCHANGED <<was_stopped, wpc, wi, nsegs, stop_requested, segment_completed,
                   timeout_counter, trace, requests, mainQ, tts_worker,
                   is_stopping, tts_engine, ret, req, waitw, fails, aborted,
                   highlight_boxes, current_ocr_boxes, status>>
    /\ UNCHANGED since_init
    /\ UNCHANGED viewVars
    /\ UNCHANGED ocrVars
    /\ UNCHANGED spoken

\* MainWindow.clear_highlights: the user triggers the toolbar action
clear_highlights ==
    /\ Top(MainThread) = "loop"
    /\ Live
    /\ highlight_boxes' = <<>>
    /\ status' = "cleared"
    /\ UNCHANGED <<was_stopped, wpc, wi, nsegs, stop_requested, segment_completed,
                   timeout_counter, trace, requests, mainQ, tts_worker,
                   is_stopping, tts_engine, pc, ret, req, waitw, fails, aborted,
                   current_ocr_boxes, since_init>>
    /\ UNCHANGED viewVars
    /\ UNCHANGED ocrVars
    /\ UNCHANGED spoken

\* ------------------------------------------------------------ stop_reading
\* an exception leaves the function: in a recognition thread it is caught by
\* the handler of _run_ocr (lines 467-474); in a slot of the main thread it
\* is unhandled and PyQt aborts the process
Raise(t) ==
    IF t = MainThread
    THEN /\ aborted' = TRUE
         /\ UNCHANGED <<pc, status>>
    ELSE /\ pc' = [pc EXCEPT ![t] = <<"end">>]
         /\ status' = "ocrfail"
         /\ UNCHANGED aborted

\* stop_reading without lines 624-626: with no worker running it returns at
\* once and leaves is_stopping as it is
stop_reading_keep(t, rest) ==
    IF isRunning(tts_worker)
    THEN /\ is_stopping' = TRUE
         /\ status' = "stopping"
         /\ since_init' = [since_init EXCEPT !.stopped = @ \/ tts_engine # "none"]
         /\ Frames(t, <<"sr2">>, rest)
    ELSE /\ Frames(t, <<>>, rest)
         /\ UNCHANGED <<is_stopping, status, since_init>>

\* stop_reading is entered by t, which continues with the frames rest when it
\* returns.  Lines 583-597 and 624-626: the check, is_stopping,
\* tts_engine.stop()
stop_reading(t, rest) ==
    IF isRunning(tts_worker)
    THEN /\ is_stopping' = TRUE
         /\ status' = "stopping"
         /\ since_init' = [since_init EXCEPT !.stopped = @ \/ tts_engine # "none"]
         /\ Frames(t, <<"sr2">>, rest)
    ELSE /\ is_stopping' = FALSE
         /\ Frames(t, <<>>, rest)
         /\ UNCHANGED <<status, since_init>>

\* lines 599-602: self.tts_worker.stop(), then self.tts_worker.wait(3000)
stop_reading_stop(t) ==
    /\ Top(t) = "sr2"
    /\ Live
    /\ IF tts_worker = 0
       THEN /\ Raise(t)
            /\ UNCHANGED <<stop_requested, was_stopped, waitw>>
       ELSE /\ stop(tts_worker)
            /\ waitw' = [waitw EXCEPT ![t] = tts_worker]
            /\ Frames(t, <<"sr3">>, Tail(pc[t]))
            /\ UNCHANGED <<aborted, status>>
    /\ UNCHANGED <<wpc, wi, nsegs, segment_completed, timeout_counter, trace,
                   requests, mainQ, tts_worker, is_stopping, tts_engine, ret,
                   req, fails, highlight_boxes, current_ocr_boxes>>
    /\ UNCHANGED since_init
    /\ UNCHANGED viewVars
    /\ UNCHANGED ocrVars
    /\ UNCHANGED spoken

\* lines 602-612: wait() returns, processEvents (there are events to process
\* only when the caller is the main thread), msleep, _init_tts_engine()
stop_reading_waited(t) ==
    /\ Top(t) = "sr3"
    /\ Live
    /\ wpc[waitw[t]] = "done"
    /\ IF t = MainThread /\ mainQ # <<>>
       THEN /\ Frames(t, <<"pe", "sr4">>, Tail(pc[t]))
            /\ UNCHANGED <<tts_engine, fails, ret, since_init>>
       ELSE init_tts_engine(t, "sr5", Tail(pc[t]), fails)
    /\ waitw' = [waitw EXCEPT ![t] = 0]
    /\ UNCHANGED <<was_stopped, wpc, wi, nsegs, stop_requested, segment_completed,
                   timeout_counter, trace, requests, mainQ, tts_worker,
                   is_stopping, req, aborted, highlight_boxes,
                   current_ocr_boxes, status>>
    /\ UNCHANGED viewVars
    /\ UNCHANGED ocrVars
    /\ UNCHANGED spoken

\* lines 607-612 in the main thread, after the pending events
stop_reading_reinit ==
    /\ Top(MainThread) = "sr4"
    /\ Live
    /\ init_tts_engine(MainThread, "sr5", Tail(pc[MainThread]), fails)
    /\ UNCHANGED <<was_stopped, wpc, wi, nsegs, stop_requested, segment_completed,
                   timeout_counter, trace, requests, mainQ, tts_worker,
                   is_stopping, req, waitw, aborted, highlight_boxes,
                   current_ocr_boxes, status>>
    /\ UNCHANGED viewVars
    /\ UNCHANGED ocrVars
    /\ UNCHANGED spoken

\* lines 614-623
stop_reading_end(t) ==
    /\ Top(t) = "sr5"
    /\ Live
    /\ tts_worker' = 0
    /\ highlight_boxes' = <<>>
    /\ is_stopping' = FALSE
    /\ status' = "stopped"
    /\ Frames(t, <<>>, Tail(pc[t]))
    /\ ret' = [ret EXCEPT ![t] = FALSE]
    /\ UNCHANGED <<was_stopped, wpc, wi, nsegs, stop_requested, segment_completed,
                   timeout_counter, trace, requests, mainQ, tts_engine, req,
                   waitw, fails, aborted, current_ocr_boxes>>
    /\ UNCHANGED since_init
    /\ UNCHANGED viewVars
    /\ UNCHANGED ocrVars
    /\ UNCHANGED spoken

\* the user triggers the stop action (lines 225, 273)
user_stop ==
    /\ Top(MainThread) = "loop"
    /\ Live
    /\ stop_reading(MainThread, pc[MainThread])
    /\ UNCHANGED <<was_stopped, wpc, wi, nsegs, stop_requested, segment_completed,
                   timeout_counter, trace, requests, mainQ, tts_worker,
                   tts_engine, ret, req, waitw, fails, aborted,
                   highlight_boxes, current_ocr_boxes>>
    /\ UNCHANGED viewVars
    /\ UNCHANGED ocrVars
    /\ UNCHANGED spoken

\* ------------------------------------------------------ start_ocr_and_read
\* the recognition pass a new thread would run
NextPass == CHOOSE g \in Gens : pc[g] = <<"idle">> /\ \A h \in 1..(g - 1) : pc[h] # <<"idle">>

\* lines 364-392 with the main thread continuing at rest: processEvents, then
\* the page image is taken and the recognition thread is started
recognize(rest) ==
    IF mainQ # <<>>
    THEN Frames(MainThread, <<"pe", "so3">>, rest)
    ELSE pc' = [pc EXCEPT ![MainThread] = rest, ![NextPass] = <<"ocr">>]

\* lines 346-362: the user triggers recognition
start_ocr_and_read ==
    /\ Top(MainThread) = "loop"
    /\ Live
    /\ \E g \in Gens : pc[g] = <<"idle">>
    /\ Cardinality({g \in Gens : pc[g] \notin {<<"idle">>, <<"end">>}}) < MaxOcr
    /\ highlight_boxes' = <<>>
    /\ IF isRunning(tts_worker)
       THEN stop_reading(MainThread, <<"so1">> \o pc[MainThread])
       ELSE /\ status' = "recognizing"
            /\ recognize(pc[MainThread])
            /\ UNCHANGED <<is_stopping, since_init>>
    /\ UNCHANGED <<was_stopped, wpc, wi, nsegs, stop_requested, segment_completed,
                   timeout_counter, trace, requests, mainQ, tts_worker,
                   tts_engine, ret, req, waitw, fails, aborted,
                   current_ocr_boxes>>
    /\ UNCHANGED viewVars
    /\ UNCHANGED ocrVars
    /\ UNCHANGED spoken

\* lines 361-365, after stop_reading has returned
start_ocr_and_read_stopped ==
    /\ Top(MainThread) = "so1"
    /\ Live
    /\ status' = "recognizing"
    /\ recognize(Tail(pc[MainThread]))
    /\ UNCHANGED <<was_stopped, wpc, wi, nsegs, stop_requested, segment_completed,
                   timeout_counter, trace, requests, mainQ, tts_worker,
                   is_stopping, tts_engine, ret, req, waitw, fails, aborted,
                   highlight_boxes, current_ocr_boxes>>
    /\ UNCHANGED since_init
    /\ UNCHANGED viewVars
    /\ UNCHANGED ocrVars
    /\ UNCHANGED spoken

\* lines 367-392, after the pending events
start_ocr_and_read_thread ==
    /\ Top(MainThread) = "so3"
    /\ Live
    /\ pc' = [pc EXCEPT ![MainThread] = Tail(@), ![NextPass] = <<"ocr">>]
    /\ UNCHANGED <<was_stopped, wpc, wi, nsegs, stop_requested, segment_completed,
                   timeout_counter, trace, requests, mainQ, tts_worker,
                   is_stopping, tts_engine, ret, req, waitw, fails, aborted,
                   highlight_boxes, current_ocr_boxes, status>>
    /\ UNCHANGED since_init
    /\ UNCHANGED viewVars
    /\ UNCHANGED ocrVars
    /\ UNCHANGED spoken

\* ------------------------------------------ _run_ocr, in thread g of pass g
\* recognition yields n segments after the confidence and blank filters;
\* with n > 0 the thread enters _start_tts_with_segments (lines 476-488)
run_ocr(g) ==
    /\ Top(g) = "ocr"
    /\ Live
    /\ \E n \in 0..MaxSegs :
          /\ nsegs' = [nsegs EXCEPT ![g] = n]
          /\ IF n = 0
             THEN /\ \/ /\ current_ocr_boxes' = g
                        /\ status' = "notext"
                     \/ /\ status' \in {"notext", "ocrfail"}
                        /\ UNCHANGED current_ocr_boxes
                  /\ pc' = [pc EXCEPT ![g] = <<"end">>]
                  /\ UNCHANGED <<is_stopping, tts_engine, fails, ret, since_init>>
             ELSE /\ current_ocr_boxes' = g
                  /\ status' = "recognizing"
                  /\ is_stopping' = FALSE
                  /\ ensure_tts_engine_ready(g, "st1", <<"end">>)
    /\ UNCHANGED <<was_stopped, wpc, wi, stop_requested, segment_completed,
                   timeout_counter, trace, requests, mainQ, tts_worker, req,
                   waitw, aborted, highlight_boxes>>
    /\ UNCHANGED viewVars
    /\ UNCHANGED ocrVars
    /\ UNCHANGED spoken

\* ---------------------------------------------- _start_tts_with_segments
\* lines 503-506: the pre-speak test begins; with no engine say() raises and
\* the handler of line 508 reinitializes
pre_speak(t, rest, f) ==
    IF tts_engine = "none"
    THEN /\ init_tts_engine(t, "st4", rest, f)
         /\ status' = "ttsfail"
    ELSE /\ Frames(t, <<"pretest">>, rest)
         /\ fails' = f
         /\ ret' = [ret EXCEPT ![t] = FALSE]
         /\ UNCHANGED <<tts_engine, status, since_init>>

\* lines 528-538: the worker is created, connected and started
create_worker(g) ==
    /\ tts_worker' = g
    /\ wpc' = [wpc EXCEPT ![g] = "top"]
    /\ status' = "reading"
    /\ since_init' = [since_init EXCEPT
                         !.late = IF since_init.timed_out THEN @ \cup {g} ELSE @]
    /\ Frames(g, <<>>, Tail(pc[g]))

\* lines 484-506: result of the engine check, the running-worker check
start_tts_checked(g) ==
    /\ Top(g) = "st1"
    /\ Live
    /\ IF ~ret[g]
       THEN /\ status' = "ttsfail"
            /\ Frames(g, <<>>, Tail(pc[g]))
            /\ UNCHANGED <<tts_engine, fails, ret, is_stopping, since_init>>
       ELSE IF isRunning(tts_worker)
       THEN /\ stop_reading(g, <<"st2">> \o Tail(pc[g]))
            /\ ret' = [ret EXCEPT ![g] = FALSE]
            /\ UNCHANGED <<tts_engine, fails>>
       ELSE /\ pre_speak(g, Tail(pc[g]), fails)
            /\ UNCHANGED is_stopping
    /\ UNCHANGED <<was_stopped, wpc, wi, nsegs, stop_requested, segment_completed,
                   timeout_counter, trace, requests, mainQ, tts_worker,
                   req, waitw, aborted, highlight_boxes,
                   current_ocr_boxes>>
    /\ UNCHANGED viewVars
    /\ UNCHANGED ocrVars
    /\ UNCHANGED spoken

\* lines 494-496: stop_reading has returned, the engine is checked again
start_tts_stopped(g) ==
    /\ Top(g) = "st2"
    /\ Live
    /\ ensure_tts_engine_ready(g, "st2r", Tail(pc[g]))
    /\ UNCHANGED <<was_stopped, wpc, wi, nsegs, stop_requested, segment_completed,
                   timeout_counter, trace, requests, mainQ, tts_worker,
                   is_stopping, req, waitw, aborted, highlight_boxes,
                   current_ocr_boxes, status>>
    /\ UNCHANGED viewVars
    /\ UNCHANGED ocrVars
    /\ UNCHANGED spoken

\* lines 496-506
start_tts_rechecked(g) ==
    /\ Top(g) = "st2r"
    /\ Live
    /\ IF ~ret[g]
       THEN /\ status' = "ttsfail"
            /\ Frames(g, <<>>, Tail(pc[g]))
            /\ UNCHANGED <<tts_engine, fails, ret, since_init>>
       ELSE pre_speak(g, Tail(pc[g]), fails)
    /\ UNCHANGED <<was_stopped, wpc, wi, nsegs, stop_requested, segment_completed,
                   timeout_counter, trace, requests, mainQ, tts_worker,
                   is_stopping, req, waitw, aborted, highlight_boxes,
                   current_ocr_boxes>>
    /\ UNCHANGED viewVars
    /\ UNCHANGED ocrVars
    /\ UNCHANGED spoken

\* lines 506-513 and 528-538: the pre-speak test returns or raises
start_tts_pretest(g) ==
    /\ Top(g) = "pretest"
    /\ Live
    /\ \/ /\ create_worker(g)
          /\ UNCHANGED <<tts_engine, fails, ret>>
       \/ /\ fails < MaxFail
          /\ init_tts_engine(g, "st4", Tail(pc[g]), fails + 1)
          /\ status' = "ttsfail"
          /\ UNCHANGED <<tts_worker, wpc>>
    /\ UNCHANGED <<was_stopped, wi, nsegs, stop_requested, segment_completed,
                   timeout_counter, trace, requests, mainQ, is_stopping, req,
                   waitw, aborted, highlight_boxes, current_ocr_boxes>>
    /\ UNCHANGED viewVars
    /\ UNCHANGED ocrVars
    /\ UNCHANGED spoken

\* lines 513-526 without the test of line 513: the second pre-speak test
\* begins whatever _init_tts_engine returned
start_tts_retry_anyway(g) ==
    /\ Top(g) = "st4"
    /\ Live
    /\ Frames(g, <<"pretest2">>, Tail(pc[g]))
    /\ ret' = [ret EXCEPT ![g] = FALSE]
    /\ UNCHANGED <<was_stopped, wpc, wi, nsegs, stop_requested, segment_completed,
                   timeout_counter, trace, requests, mainQ, tts_worker,
                   is_stopping, tts_engine, req, waitw, fails, aborted,
                   highlight_boxes, current_ocr_boxes, status, since_init>>
    /\ UNCHANGED viewVars
    /\ UNCHANGED ocrVars
    /\ UNCHANGED spoken

\* lines 513-526: result of the last reinitialization, second test begins
start_tts_retry(g) ==
    /\ Top(g) = "st4"
    /\ Live
    /\ IF ret[g] /\ tts_engine # "none"
       THEN /\ Frames(g, <<"pretest2">>, Tail(pc[g]))
            /\ UNCHANGED status
       ELSE /\ status' = "ttsfail"
            /\ Frames(g, <<>>, Tail(pc[g]))
    /\ ret' = [ret EXCEPT ![g] = FALSE]
    /\ UNCHANGED <<was_stopped, wpc, wi, nsegs, stop_requested, segment_completed,
                   timeout_counter, trace, requests, mainQ, tts_worker,
                   is_stopping, tts_engine, req, waitw, fails, aborted,
                   highlight_boxes, current_ocr_boxes>>
    /\ UNCHANGED since_init
    /\ UNCHANGED viewVars
    /\ UNCHANGED ocrVars
    /\ UNCHANGED spoken

\* lines 516-522 and 528-538: the second pre-speak test returns or raises
start_tts_pretest2(g) ==
    /\ Top(g) = "pretest2"
    /\ Live
    /\ \/ /\ create_worker(g)
          /\ UNCHANGED fails
       \/ /\ fails < MaxFail
          /\ fails' = fails + 1
          /\ status' = "ttsfail"
          /\ Frames(g, <<>>, Tail(pc[g]))
          /\ UNCHANGED <<tts_worker, wpc, since_init>>
    /\ UNCHANGED <<was_stopped, wi, nsegs, stop_requested, segment_completed,
                   timeout_counter, trace, requests, mainQ, is_stopping,
                   tts_engine, ret, req, waitw, aborted, highlight_boxes,
                   current_ocr_boxes>>
    /\ UNCHANGED viewVars
    /\ UNCHANGED ocrVars
    /\ UNCHANGED spoken

\* ------------------------------------------------------------------- Next
Next ==
    \/ \E w \in Gens : run_LoopTop(w)
    \/ \E w \in Gens : run_Poll(w)
    \/ \E w \in Gens : run_WaitExit(w)
    \/ \E w \in Gens : collect(w)
    \/ \E t \in Threads : init_tts_engine_ping(t)
    \/ on_text_segment_started
    \/ on_text_segment_finished
    \/ on_tts_finished
    \/ on_tts_error
    \/ on_request_speak
    \/ on_request_speak_say
    \/ on_request_speak_spoken
    \/ processEvents_return
    \/ \E t \in Threads : stop_reading_stop(t)
    \/ \E t \in Threads : stop_reading_waited(t)
    \/ stop_reading_reinit
    \/ \E t \in Threads : stop_reading_end(t)
    \/ user_stop
    \/ clear_highlights
    \/ start_ocr_and_read
    \/ start_ocr_and_read_stopped
    \/ start_ocr_and_read_thread
    \/ \E g \in Gens : run_ocr(g)
    \/ \E g \in Gens : start_tts_checked(g)
    \/ \E g \in Gens : start_tts_stopped(g)
    \/ \E g \in Gens : start_tts_rechecked(g)
    \/ \E g \in Gens : start_tts_pretest(g)
    \/ \E g \in Gens : start_tts_retry(g)
    \/ \E g \in Gens : start_tts_pretest2(g)

Spec == Init /\ [][Next]_vars

\* ------------------------------------ one recognition pass at a time
\* start_ocr_and_read triggered only when no recognition thread is alive.
\* A running worker is then always stopped by the main thread (lines
\* 357-359) before the recognition thread exists, and the thread never
\* takes lines 492-500 of _start_tts_with_segments.
start_ocr_and_read_solo ==
    /\ \A g \in Gens : pc[g] \in {<<"idle">>, <<"end">>}
    /\ start_ocr_and_read

NextSolo ==
    \/ \E w \in Gens : run_LoopTop(w)
    \/ \E w \in Gens : run_Poll(w)
    \/ \E w \in Gens : run_WaitExit(w)
    \/ \E w \in Gens : collect(w)
    \/ \E t \in Threads : init_tts_engine_ping(t)
    \/ on_text_segment_started
    \/ on_text_segment_finished
    \/ on_tts_finished
    \/ on_tts_error
    \/ on_request_speak
    \/ on_request_speak_say
    \/ on_request_speak_spoken
    \/ processEvents_return
    \/ \E t \in Threads : stop_reading_stop(t)
    \/ \E t \in Threads : stop_reading_waited(t)
    \/ stop_reading_reinit
    \/ \E t \in Threads : stop_reading_end(t)
    \/ user_stop
    \/ clear_highlights
    \/ start_ocr_and_read_solo
    \/ start_ocr_and_read_stopped
    \/ start_ocr_and_read_thread
    \/ \E g \in Gens : run_ocr(g)
    \/ \E g \in Gens : start_tts_checked(g)
    \/ \E g \in Gens : start_tts_pretest(g)
    \/ \E g \in Gens : start_tts_retry(g)
    \/ \E g \in Gens : start_tts_pretest2(g)

SpecSolo == Init /\ [][NextSolo]_vars

\* ------------------------------------------- a single recognition pass
\* start_ocr_and_read triggered once, on a window that has not recognised
\* anything before.
start_ocr_and_read_once ==
    /\ \A g \in Gens : pc[g] = <<"idle">>
    /\ start_ocr_and_read

NextOnce ==
    \/ \E w \in Gens : run_LoopTop(w)
    \/ \E w \in Gens : run_Poll(w)
    \/ \E w \in Gens : run_WaitExit(w)
    \/ \E t \in Threads : init_tts_engine_ping(t)
    \/ on_text_segment_started
    \/ on_text_segment_finished
    \/ on_tts_finished
    \/ on_tts_error
    \/ on_request_speak
    \/ on_request_speak_say
    \/ on_request_speak_spoken
    \/ processEvents_return
    \/ \E t \in Threads : stop_reading_stop(t)
    \/ \E t \in Threads : stop_reading_waited(t)
    \/ stop_reading_reinit
    \/ \E t \in Threads : stop_reading_end(t)
    \/ user_stop
    \/ clear_highlights
    \/ start_ocr_and_read_once
    \/ \E g \in Gens : run_ocr(g)
    \/ \E g \in Gens : start_tts_checked(g)
    \/ \E g \in Gens : start_tts_pretest(g)
    \/ \E g \in Gens : start_tts_retry(g)
    \/ \E g \in Gens : start_tts_pretest2(g)

SpecOnce == Init /\ [][NextOnce]_vars

\* ------------------------------------------------ the stop action, by call
\* A single recognition pass in which the triggered stop action is a step of
\* its own, so that a call of stop_reading and its return can be told apart.
\* QApplication.processEvents() (line 606) handles user input as well as
\* queued signals: the action can be triggered again while stop_reading is
\* in progress.

\* the user triggers the stop action (lines 225, 273): the slot is entered
user_stop_call ==
    /\ Top(MainThread) \in {"loop", "pe"}
    /\ Live
    /\ Frames(MainThread, <<"sr0">>, pc[MainThread])
    /\ UNCHANGED <<was_stopped, wpc, wi, nsegs, stop_requested, segment_completed,
                   timeout_counter, trace, requests, mainQ, tts_worker,
                   is_stopping, tts_engine, ret, req, waitw, fails, aborted,
                   highlight_boxes, current_ocr_boxes, status>>
    /\ UNCHANGED since_init
    /\ UNCHANGED viewVars
    /\ UNCHANGED ocrVars
    /\ UNCHANGED spoken

\* lines 583-597 or 624-626 of the stop_reading just entered
stop_reading_begin ==
    /\ Top(MainThread) = "sr0"
    /\ Live
    /\ stop_reading(MainThread, Tail(pc[MainThread]))
    /\ UNCHANGED <<was_stopped, wpc, wi, nsegs, stop_requested, segment_completed,
                   timeout_counter, trace, requests, mainQ, tts_worker,
                   tts_engine, ret, req, waitw, fails, aborted,
                   highlight_boxes, current_ocr_boxes>>
    /\ UNCHANGED viewVars
    /\ UNCHANGED ocrVars
    /\ UNCHANGED spoken

NextStop ==
    \/ \E w \in Gens : run_LoopTop(w)
    \/ \E w \in Gens : run_Poll(w)
    \/ \E w \in Gens : run_WaitExit(w)
    \/ \E t \in Threads : init_tts_engine_ping(t)
    \/ on_text_segment_started
    \/ on_text_segment_finished
    \/ on_tts_finished
    \/ on_tts_error
    \/ on_request_speak
    \/ on_request_speak_say
    \/ on_request_speak_spoken
    \/ processEvents_return
    \/ \E t \in Threads : stop_reading_stop(t)
    \/ \E t \in Threads : stop_reading_waited(t)
    \/ stop_reading_reinit
    \/ \E t \in Threads : stop_reading_end(t)
    \/ user_stop_call
    \/ stop_reading_begin
    \/ clear_highlights
    \/ start_ocr_and_read_once
    \/ \E g \in Gens : run_ocr(g)
    \/ \E g \in Gens : start_tts_checked(g)
    \/ \E g \in Gens : start_tts_pretest(g)
    \/ \E g \in Gens : start_tts_retry(g)
    \/ \E g \in Gens : start_tts_pretest2(g)

SpecStop == Init /\ [][NextStop]_vars

\* ------------------------------------------- PDFViewer under any caller
\* the variables of the speech side, which the PDFViewer never touches
speechVars == <<was_stopped, wpc, wi, nsegs, stop_requested, segment_completed,
                timeout_counter, trace, requests, mainQ, tts_worker, is_stopping,
                tts_engine, pc, ret, req, waitw, fails, aborted,
                current_ocr_boxes, status, since_init>>

\* polygons a caller may pass, the empty polygon included
Polygons == {Box(p, i, w) : p \in 0..MaxGen, i \in 0..(MaxSegs - 1), w \in Gens}

\* PDFViewer.load_pdf of a document of n pages
load_pdf ==
    /\ \E n \in 1..MaxPages : page_count' = n
    /\ current_page' = 0
    /\ zoom_factor' = [up |-> 0, down |-> 0]
    /\ UNCHANGED <<highlight_boxes, box_coords, page_num>>
    /\ UNCHANGED speechVars
    /\ UNCHANGED ocrVars
    /\ UNCHANGED spoken

\* PDFViewer.highlight_text_box(b)
viewer_highlight_text_box ==
    /\ \E b \in Polygons : highlight_boxes' = highlight_text_box(highlight_boxes, b)
    /\ UNCHANGED viewVars
    /\ UNCHANGED ocrVars
    /\ UNCHANGED spoken
    /\ UNCHANGED speechVars
    /\ UNCHANGED ocrVars
    /\ UNCHANGED spoken

\* PDFViewer.clear_highlights
viewer_clear_highlights ==
    /\ highlight_boxes # <<>>
    /\ highlight_boxes' = <<>>
    /\ UNCHANGED viewVars
    /\ UNCHANGED ocrVars
    /\ UNCHANGED spoken
    /\ UNCHANGED speechVars
    /\ UNCHANGED ocrVars
    /\ UNCHANGED spoken

\* PDFViewer.next_page without the test of line 214
next_page_unguarded ==
    /\ page_count # 0
    /\ current_page' = current_page + 1
    /\ UNCHANGED <<page_count, zoom_factor, highlight_boxes, box_coords, page_num>>
    /\ UNCHANGED speechVars
    /\ UNCHANGED ocrVars
    /\ UNCHANGED spoken

\* PDFViewer.next_page
next_page ==
    /\ page_count # 0
    /\ current_page < page_count - 1
    /\ current_page' = current_page + 1
    /\ UNCHANGED <<page_count, zoom_factor, highlight_boxes, box_coords, page_num>>
    /\ UNCHANGED speechVars
    /\ UNCHANGED ocrVars
    /\ UNCHANGED spoken

\* PDFViewer.prev_page
prev_page ==
    /\ page_count # 0
    /\ current_page > 0
    /\ current_page' = current_page - 1
    /\ UNCHANGED <<page_count, zoom_factor, highlight_boxes, box_coords, page_num>>
    /\ UNCHANGED speechVars
    /\ UNCHANGED ocrVars
    /\ UNCHANGED spoken

\* PDFViewer.go_to_page(n), n also outside the document; the caller is the
\* main thread and receives True or False
go_to_page ==
    /\ page_count # 0
    /\ \E n \in (0 - 1)..MaxPages :
          /\ page_num' = n
          /\ IF 0 <= n /\ n < page_count
             THEN /\ current_page' = n
                  /\ ret' = [ret EXCEPT ![MainThread] = TRUE]
             ELSE /\ UNCHANGED current_page
                  /\ ret' = [ret EXCEPT ![MainThread] = FALSE]
    /\ UNCHANGED <<page_count, zoom_factor, highlight_boxes, box_coords>>
    /\ UNCHANGED <<was_stopped, wpc, wi, nsegs, stop_requested, segment_completed,
                   timeout_counter, trace, requests, mainQ, tts_worker,
                   is_stopping, tts_engine, pc, req, waitw, fails, aborted,
                   current_ocr_boxes, status, since_init>>
    /\ UNCHANGED ocrVars
    /\ UNCHANGED spoken

\* PDFViewer.zoom_in: zoom_factor *= 1.2
zoom_in ==
    /\ page_count # 0
    /\ zoom_factor.up < MaxZoom
    /\ zoom_factor' = [zoom_factor EXCEPT !.up = @ + 1]
    /\ UNCHANGED <<current_page, page_count, highlight_boxes, box_coords, page_num>>
    /\ UNCHANGED speechVars
    /\ UNCHANGED ocrVars
    /\ UNCHANGED spoken

\* PDFViewer.zoom_out: zoom_factor *= 0.8
zoom_out ==
    /\ page_count # 0
    /\ zoom_factor.down < MaxZoom
    /\ zoom_factor' = [zoom_factor EXCEPT !.down = @ + 1]
    /\ UNCHANGED <<current_page, page_count, highlight_boxes, box_coords, page_num>>
    /\ UNCHANGED speechVars
    /\ UNCHANGED ocrVars
    /\ UNCHANGED spoken

NextViewer ==
    \/ load_pdf
    \/ viewer_highlight_text_box
    \/ viewer_clear_highlights
    \/ next_page
    \/ prev_page
    \/ go_to_page
    \/ zoom_in
    \/ zoom_out

SpecViewer == Init /\ [][NextViewer]_vars

\* -------------------------------- highlight_text_box under any argument
\* items of a value passed as box_coords: [x, y], (x, y), [x, y, z], a number
Items == {[type |-> "list", len |-> 2], [type |-> "tuple", len |-> 2],
          [type |-> "list", len |-> 3], [type |-> "int", len |-> 0]}

\* values a caller may pass as box_coords
Values ==
    {None} \cup {[type |-> t, items |-> s] :
                    t \in {"list", "tuple"},
                    s \in UNION {[1..n -> Items] : n \in 0..MaxPoints}}

\* PDFViewer.highlight_text_box(v) for any value v
values_highlight_text_box ==
    /\ \E v \in Values :
          /\ box_coords' = v
          /\ highlight_boxes' = highlight_text_box(highlight_boxes, v)
    /\ UNCHANGED <<current_page, page_count, zoom_factor, page_num>>
    /\ UNCHANGED speechVars
    /\ UNCHANGED ocrVars
    /\ UNCHANGED spoken

NextValues ==
    \/ load_pdf
    \/ values_highlight_text_box
    \/ viewer_clear_highlights
    \/ next_page
    \/ prev_page

SpecValues == Init /\ [][NextValues]_vars

\* ------------------------------ _run_ocr from detector result to sequence
\* A detected line is [box, text, confidence]: box is the polygon of four
\* [x, y] points, text a sequence of characters, confidence in tenths (5 is
\* 0.5).

\* the rectangle of 20 x 10 pixels with corner [x, y], as the detector
\* returns it
Rect(x, y) == <<<<x, y>>, <<x + 20, y>>, <<x + 20, y + 10>>, <<x, y + 10>>>>

\* texts the detector may return: empty, one space, a letter
Texts == {<<>>, <<" ">>, <<"a">>}

\* lines the detector may return: centroid y 8, 15 or 25, centroid x 10 or
\* 50, confidence 0.4, 0.5 or 0.6
Lines ==
    {[box |-> Rect(x, y), text |-> t, confidence |-> c] :
        x \in {0, 40}, y \in {3, 10, 20}, t \in Texts, c \in {4, 5, 6}}

\* result[0] of self.ocr.ocr(img_np): any list of at most MaxLines lines
Results == UNION {[1..n -> Lines] : n \in 0..MaxLines}

\* sum(point[k] for point in box_coords) / len(box_coords), lines 415-419
\* (the sums of the rectangles above are multiples of 4)
center(box, k) == (box[1][k] + box[2][k] + box[3][k] + box[4][k]) \div 4

\* the tuple appended to text_data, line 421
Item(line) ==
    [box |-> line.box, text |-> line.text, confidence |-> line.confidence,
     y_center |-> center(line.box, 2), x_center |-> center(line.box, 1)]

\* the loop of lines 404-421: text_data of the lines with confidence > 0.5
RECURSIVE text_data(_)
text_data(lines) ==
    IF lines = <<>> THEN <<>>
    ELSE (IF Head(lines).confidence > 5 THEN <<Item(Head(lines))>> ELSE <<>>)
         \o text_data(Tail(lines))

\* a sort key without the row bucket: (y_center, x_center)
sort_key_exact(item) == <<item.y_center, item.x_center>>

\* sort_key, lines 425-430: (int(y_center // 20), x_center)
sort_key(item) == <<item.y_center \div 20, item.x_center>>

\* order of the key tuples
KeyLeq(a, b) == a[1] < b[1] \/ (a[1] = b[1] /\ a[2] <= b[2])

\* item put into the sorted list behind every entry whose key is not larger
RECURSIVE insert(_, _)
insert(item, sorted) ==
    IF sorted = <<>> THEN <<item>>
    ELSE IF KeyLeq(sort_key(Head(sorted)), sort_key(item))
    THEN <<Head(sorted)>> \o insert(item, Tail(sorted))
    ELSE <<item>> \o sorted

\* text_data.sort(key=sort_key), line 432: stable, ascending
RECURSIVE sort(_)
sort(data) ==
    IF data = <<>> THEN <<>>
    ELSE insert(data[Len(data)], sort(SubSeq(data, 1, Len(data) - 1)))

\* str.strip(): leading and trailing spaces removed
RECURSIVE strip(_)
strip(t) ==
    IF t = <<>> THEN <<>>
    ELSE IF Head(t) = " " THEN strip(Tail(t))
    ELSE IF t[Len(t)] = " " THEN strip(SubSeq(t, 1, Len(t) - 1))
    ELSE t

\* the test of line 437 without strip(): text_content alone
keep_nonempty(t) == t # <<>>

\* the test of line 437: text_content and text_content.strip()
keep(t) == t # <<>> /\ strip(t) # <<>>

\* the loop of lines 436-443: the entries whose text passes the test
RECURSIVE filtered(_)
filtered(data) ==
    IF data = <<>> THEN <<>>
    ELSE (IF keep(Head(data).text) THEN <<Head(data)>> ELSE <<>>)
         \o filtered(Tail(data))

\* _run_ocr, lines 399-447, for a detector result r: the two lists built
\* from it (no list is built from an empty result); one run is followed
run_ocr_lists ==
    /\ result = <<>>
    /\ \E r \in Results :
          /\ result' = r
          /\ LET data == filtered(sort(text_data(r)))
             IN /\ filtered_text_segments' = [j \in 1..Len(data) |-> data[j].text]
                /\ filtered_ocr_boxes' = [j \in 1..Len(data) |-> data[j].box]
    /\ UNCHANGED <<was_stopped, wpc, wi, nsegs, stop_requested, segment_completed,
                   timeout_counter, trace, requests, mainQ, tts_worker,
                   is_stopping, tts_engine, pc, ret, req, waitw, fails, aborted,
                   highlight_boxes, current_ocr_boxes, status, since_init>>
    /\ UNCHANGED viewVars
    /\ UNCHANGED spoken

NextSorter == run_ocr_lists

SpecSorter == Init /\ [][NextSorter]_vars

\* ------------------------------------------- TTSWorker under any caller
\* The worker objects alone: whoever holds a worker may call its methods and
\* emit on its signals at any moment.  The threads of MainWindow stay where
\* Init puts them; the event loop only takes the queued signals, and a caller
\* acts once the queue is empty (taking a signal changes nothing but the
\* queue).

\* TTSWorker(text_segments, ocr_boxes) is constructed, connected and started
\* (lines 529-537); the workers run one after the other, a worker sees the
\* earlier ones through was_stopped only
worker_start(w) ==
    /\ wpc[w] = "none"
    /\ Live
    /\ mainQ = <<>>
    /\ \A v \in Gens : ~InLoop(v)
    /\ \E n \in 0..MaxSegs : nsegs' = [nsegs EXCEPT ![w] = n]
    /\ wpc' = [wpc EXCEPT ![w] = "top"]
    /\ tts_worker' = w
    /\ UNCHANGED <<was_stopped, wi, stop_requested, segment_completed,
                   timeout_counter, trace, requests, mainQ, is_stopping,
                   tts_engine, pc, ret, req, waitw, fails, aborted,
                   highlight_boxes, current_ocr_boxes, status>>
    /\ UNCHANGED since_init
    /\ UNCHANGED viewVars
    /\ UNCHANGED ocrVars
    /\ UNCHANGED spoken

\* some thread calls stop() on the worker (line 599)
caller_stop(w) ==
    /\ InLoop(w) \/ wpc[w] = "done"
    /\ Live
    /\ mainQ = <<>>
    /\ ~stop_requested[w]
    /\ stop(w)
    /\ UNCHANGED <<wpc, wi, nsegs, segment_completed, timeout_counter, trace,
                   requests, mainQ, tts_worker, is_stopping, tts_engine, pc,
                   ret, req, waitw, fails, aborted, highlight_boxes,
                   current_ocr_boxes, status>>
    /\ UNCHANGED since_init
    /\ UNCHANGED viewVars
    /\ UNCHANGED ocrVars
    /\ UNCHANGED spoken

\* the main thread calls on_segment_complete() on the worker (lines 751, 765,
\* 772, 782, 791, 808, 810, 816, 825)
caller_complete(w) ==
    /\ InLoop(w) \/ wpc[w] = "done"
    /\ Live
    /\ mainQ = <<>>
    /\ ~segment_completed[w]
    /\ on_segment_complete(w)
    /\ UNCHANGED <<was_stopped, wpc, wi, nsegs, stop_requested, timeout_counter,
                   trace, requests, mainQ, tts_worker, is_stopping, tts_engine,
                   pc, ret, req, waitw, fails, aborted, highlight_boxes,
                   current_ocr_boxes, status>>
    /\ UNCHANGED since_init
    /\ UNCHANGED viewVars
    /\ UNCHANGED ocrVars
    /\ UNCHANGED spoken

\* the main thread emits error on the worker for one of its requests (lines
\* 780, 814, 823)
caller_error(w) ==
    /\ InLoop(w) \/ wpc[w] = "done"
    /\ Live
    /\ mainQ = <<>>
    /\ Cardinality(Kinds(trace[w], "error")) < Len(requests[w])
    /\ trace' = [trace EXCEPT ![w] = Append(@, Note("error", requests[w][Len(requests[w])]))]
    /\ UNCHANGED <<was_stopped, wpc, wi, nsegs, stop_requested, segment_completed,
                   timeout_counter, requests, mainQ, tts_worker, is_stopping,
                   tts_engine, pc, ret, req, waitw, fails, aborted,
                   highlight_boxes, current_ocr_boxes, status>>
    /\ UNCHANGED since_init
    /\ UNCHANGED viewVars
    /\ UNCHANGED ocrVars
    /\ UNCHANGED spoken

\* the event loop takes the oldest queued signal
deliver ==
    /\ Dispatch(Head(mainQ).k)
    /\ UNCHANGED <<was_stopped, wpc, wi, nsegs, stop_requested, segment_completed,
                   timeout_counter, trace, requests, tts_worker, is_stopping,
                   tts_engine, pc, ret, req, waitw, fails, aborted,
                   highlight_boxes, current_ocr_boxes, status>>
    /\ UNCHANGED since_init
    /\ UNCHANGED viewVars
    /\ UNCHANGED ocrVars
    /\ UNCHANGED spoken

NextWorker ==
    \/ \E w \in Gens : worker_start(w)
    \/ \E w \in Gens : run_LoopTop(w)
    \/ \E w \in Gens : run_Poll(w)
    \/ \E w \in Gens : run_WaitExit(w)
    \/ \E w \in Gens : collect(w)
    \/ \E w \in Gens : caller_stop(w)
    \/ \E w \in Gens : caller_complete(w)
    \/ \E w \in Gens : caller_error(w)
    \/ deliver

SpecWorker == Init /\ [][NextWorker]_vars

\* The worker threads are scheduled, the event loop takes the signals queued
\* for it and unreachable workers are freed; the callers of a worker need
\* never act.
SpecWorkerFair ==
    /\ SpecWorker
    /\ \A w \in Gens : /\ WF_vars(run_LoopTop(w))
                       /\ WF_vars(run_Poll(w))
                       /\ WF_vars(run_WaitExit(w))
                       /\ WF_vars(collect(w))
    /\ WF_vars(deliver)

\* --------------------------------------- TTSWorker.run, one read at a time
\* Lines 58-74 read stop_requested and segment_completed four times (the
\* while test, then the tests of lines 64, 67 and 71) while other threads
\* set them.  Here each read is a step of its own and the callers act in
\* between; the worker is at "l64", "l67" or "l71" before the test of that
\* line.
ReadLabels == {"l64", "l67", "l71"}

\* the test of line 58 fails: the while loop is left
run_While(w) ==
    /\ wpc[w] = "wait"
    /\ Live
    /\ \/ segment_completed[w]
       \/ stop_requested[w]
       \/ timeout_counter[w] >= max_timeout_counts
    /\ wpc' = [wpc EXCEPT ![w] = "l64"]
    /\ UNCHANGED <<wi, stop_requested, segment_completed, timeout_counter,
                   trace, requests, mainQ, was_stopped, since_init>>
    /\ Unchanged_main
    /\ UNCHANGED viewVars
    /\ UNCHANGED ocrVars
    /\ UNCHANGED spoken

\* lines 64-66: break on a stop request
run_If64(w) ==
    /\ wpc[w] = "l64"
    /\ Live
    /\ IF stop_requested[w]
       THEN /\ run_finally(w, trace[w], mainQ)
            /\ timeout_counter' = [timeout_counter EXCEPT ![w] = 0]
       ELSE /\ wpc' = [wpc EXCEPT ![w] = "l67"]
            /\ UNCHANGED <<trace, mainQ, timeout_counter>>
    /\ UNCHANGED <<wi, stop_requested, segment_completed, requests,
                   was_stopped, since_init>>
    /\ Unchanged_main
    /\ UNCHANGED viewVars
    /\ UNCHANGED ocrVars
    /\ UNCHANGED spoken

\* run() without the test of lines 67-70
run_If67_none(w) ==
    /\ wpc[w] = "l67"
    /\ Live
    /\ wpc' = [wpc EXCEPT ![w] = "l71"]
    /\ UNCHANGED <<trace, mainQ, timeout_counter, since_init>>
    /\ UNCHANGED <<wi, stop_requested, segment_completed, requests, was_stopped>>
    /\ Unchanged_main
    /\ UNCHANGED viewVars
    /\ UNCHANGED ocrVars
    /\ UNCHANGED spoken

\* lines 67-70: error and break when the count is used up and the flag unset
run_If67(w) ==
    /\ wpc[w] = "l67"
    /\ Live
    /\ IF timeout_counter[w] >= max_timeout_counts /\ ~segment_completed[w]
       THEN /\ run_finally(w, Append(trace[w], Note("error", wi[w])),
                           Append(mainQ, Event("error", w, wi[w])))
            /\ since_init' = [since_init EXCEPT !.timed_out = TRUE]
            /\ timeout_counter' = [timeout_counter EXCEPT ![w] = 0]
       ELSE /\ wpc' = [wpc EXCEPT ![w] = "l71"]
            /\ UNCHANGED <<trace, mainQ, timeout_counter, since_init>>
    /\ UNCHANGED <<wi, stop_requested, segment_completed, requests, was_stopped>>
    /\ Unchanged_main
    /\ UNCHANGED viewVars
    /\ UNCHANGED ocrVars
    /\ UNCHANGED spoken

\* lines 71-74: with the flag unset a warning is printed; either way
\* text_segment_finished(i) is emitted and the for loop goes on
run_If71(w) ==
    /\ wpc[w] = "l71"
    /\ Live
    /\ trace' = [trace EXCEPT ![w] = Append(@, Note("segfinished", wi[w]))]
    /\ mainQ' = Append(mainQ, Event("segfinished", w, wi[w]))
    /\ wi' = [wi EXCEPT ![w] = @ + 1]
    /\ wpc' = [wpc EXCEPT ![w] = "top"]
    /\ timeout_counter' = [timeout_counter EXCEPT ![w] = 0]
    /\ UNCHANGED <<stop_requested, segment_completed, requests, was_stopped,
                   since_init>>
    /\ Unchanged_main
    /\ UNCHANGED viewVars
    /\ UNCHANGED ocrVars
    /\ UNCHANGED spoken

\* some thread calls stop() on the worker between two of its reads
reads_stop(w) ==
    /\ wpc[w] \in ReadLabels
    /\ Live
    /\ mainQ = <<>>
    /\ ~stop_requested[w]
    /\ stop(w)
    /\ UNCHANGED <<wpc, wi, segment_completed, timeout_counter, trace,
                   requests, mainQ, since_init>>
    /\ Unchanged_main
    /\ UNCHANGED viewVars
    /\ UNCHANGED ocrVars
    /\ UNCHANGED spoken

\* the main thread calls on_segment_complete() between two of the reads
reads_complete(w) ==
    /\ wpc[w] \in ReadLabels
    /\ Live
    /\ mainQ = <<>>
    /\ ~segment_completed[w]
    /\ on_segment_complete(w)
    /\ UNCHANGED <<was_stopped, wpc, wi, stop_requested, timeout_counter,
                   trace, requests, mainQ, since_init>>
    /\ Unchanged_main
    /\ UNCHANGED viewVars
    /\ UNCHANGED ocrVars
    /\ UNCHANGED spoken

\* a worker is started once the earlier ones have left their loops
reads_start(w) ==
    /\ \A v \in Gens : wpc[v] \notin ReadLabels
    /\ worker_start(w)

NextReads ==
    \/ \E w \in Gens : reads_start(w)
    \/ \E w \in Gens : run_LoopTop(w)
    \/ \E w \in Gens : run_Poll(w)
    \/ \E w \in Gens : run_While(w)
    \/ \E w \in Gens : run_If64(w)
    \/ \E w \in Gens : run_If67(w)
    \/ \E w \in Gens : run_If71(w)
    \/ \E w \in Gens : collect(w)
    \/ \E w \in Gens : caller_stop(w)
    \/ \E w \in Gens : caller_complete(w)
    \/ \E w \in Gens : reads_stop(w)
    \/ \E w \in Gens : reads_complete(w)
    \/ deliver

SpecReads == Init /\ [][NextReads]_vars

\* ============================================================ properties
Started(i) == Note("started", i)
SegFinished(i) == Note("segfinished", i)
Finished == Note("finished", 0)

RECURSIVE ExpectedTrace(_)
\* started(0), finished(0), ..., started(n-1), finished(n-1)
ExpectedTrace(n) ==
    IF n = 0 THEN <<>>
    ELSE ExpectedTrace(n - 1) \o <<Started(n - 1), SegFinished(n - 1)>>

\* the worker left its loop without a stop, a failure or a timeout
CleanRun(w) ==
    /\ wpc[w] = "done"
    /\ nsegs[w] >= 1
    /\ ~stop_requested[w]
    /\ Kinds(trace[w], "error") = {}

\* the worker was stopped while it waited for segment wi[w]
StoppedInWait(w) ==
    /\ wpc[w] = "done"
    /\ stop_requested[w]
    /\ Len(trace[w]) >= 2
    /\ trace[w][Len(trace[w]) - 1].k = "started"

\* C1: a generation with N >= 1 segments that is neither stopped, failed nor
\* timed out emits exactly started(0), finished(0), ..., started(N-1),
\* finished(N-1), finished, whatever earlier generations did.
C1_ExactTrace ==
    \A w \in Gens :
        CleanRun(w) => trace[w] = ExpectedTrace(nsegs[w]) \o <<Finished>>

\* C2: at most one invocation of the speech engine is in flight, over the
\* main thread and every recognition thread.
C2_OneInFlight == Cardinality(InFlight) <= 1

\* C3: every say/runAndWait on the engine is executed by the main thread.
C3_EngineOwner == \A t \in Threads : Top(t) \in InFlightLabels => t = MainThread

\* C4: two workers are never inside their sequencing loops at the same time.
C4_NoOverlap == Cardinality({w \in Gens : InLoop(w)}) <= 1

\* C5: every started worker emits finished exactly once, on every way its
\* loop can exit: none while it is in its loop, exactly one once run() has
\* returned.
C5_FinishedOnce ==
    \A w \in Gens :
        /\ InLoop(w) => Kinds(trace[w], "finished") = {}
        /\ wpc[w] = "done" => Cardinality(Kinds(trace[w], "finished")) = 1

\* a worker started after an earlier one was stopped has left its loop on a
\* timeout: error, then finished
C5_Witness ==
    \E w \in Gens :
        /\ wpc[w] = "done"
        /\ ~stop_requested[w]
        /\ was_stopped
        /\ \E j \in Kinds(trace[w], "error") : j + 1 \in Kinds(trace[w], "finished")

\* C7: after finished nothing more is emitted on a worker: finished is the
\* last notification of its trace.
C7_FinishedLast ==
    \A w \in Gens : \A j \in Kinds(trace[w], "finished") : j = Len(trace[w])

\* C6: within a generation the indices of text_segment_started and of
\* text_segment_finished are strictly ascending and finished(i) comes after a
\* started(i).
C6_Ascending ==
    \A w \in Gens :
        LET tr == trace[w]
        IN /\ \A a, b \in Kinds(tr, "started") : a < b => tr[a].i < tr[b].i
           /\ \A a, b \in Kinds(tr, "segfinished") : a < b => tr[a].i < tr[b].i
           /\ \A b \in Kinds(tr, "segfinished") :
                 \E a \in Kinds(tr, "started") : a < b /\ tr[a].i = tr[b].i

\* C8: a stop during the wait for segment k yields no finished(k), no
\* started beyond k, no further request and a trace ending with finished; a
\* stop in the wait for segment 1 yields started(0), finished(0), started(1),
\* finished.
C8_StopInWait ==
    \A w \in Gens :
        StoppedInWait(w) =>
            LET tr == trace[w]
                k == wi[w]
            IN /\ tr[Len(tr)] = Finished
               /\ \A j \in Kinds(tr, "segfinished") : tr[j].i # k
               /\ \A j \in Kinds(tr, "started") : tr[j].i <= k
               /\ Len(requests[w]) = k + 1
               /\ k = 1 => tr = <<Started(0), SegFinished(0), Started(1), Finished>>

\* C9: a stop_reading call made while a worker loop is running reaches that
\* worker: stop_reading never returns through its nothing-to-stop branch, and
\* never raises, while some worker is inside its loop.
C9_StopReaches ==
    [][(\/ user_stop /\ Top(MainThread)' # "sr2"
        \/ \E t \in Threads : stop_reading_stop(t) /\ Top(t)' # "sr3")
       => \A w \in Gens : ~InLoop(w)]_vars

\* C10: a request whose sender is not the current worker, or whose sender
\* has stop_requested set, never makes the engine speak: it is acknowledged
\* and nothing else happens.
C10_StaleInert ==
    [][\A w \in Gens :
          (on_request_speak /\ Head(mainQ).w = w
             /\ (w # tts_worker \/ stop_requested[w]))
          => (segment_completed'[w] /\ pc' = pc /\ tts_engine' = tts_engine)]_vars

\* C11: a notification (started, finished of a segment, finished, error)
\* whose sender is not the current worker changes neither the highlight, nor
\* the reference to the current worker, nor the displayed status.
C11_StaleNotification ==
    [][\A k \in {"started", "segfinished", "finished", "error"} :
          (Dispatch(k) /\ Head(mainQ).w # tts_worker)
          => /\ highlight_boxes' = highlight_boxes
             /\ tts_worker' = tts_worker
             /\ status' = status]_vars

\* the worker left its loop on the timeout of segment wi[w]: it is not
\* stopped and has not gone through all its segments
TimedOut(w) ==
    /\ wpc[w] = "done"
    /\ ~stop_requested[w]
    /\ wi[w] < nsegs[w]

\* C12: a worker whose wait for segment i reaches the bound without a stop
\* reports the timeout, emits no text_segment_finished(i), nothing for a later
\* segment, and its own notifications end started(i), error, finished.
C12_Timeout ==
    \A w \in Gens :
        TimedOut(w) =>
            LET tr == trace[w]
                i == wi[w]
            IN /\ \A j \in Kinds(tr, "segfinished") : tr[j].i # i
               /\ \A j \in Kinds(tr, "started") : tr[j].i <= i
               /\ Len(requests[w]) = i + 1
               /\ \E f \in Kinds(tr, "finished") :
                     /\ f >= 3
                     /\ tr[f - 1] = Note("error", i)
                     /\ \E a \in 1..(f - 2) :
                           /\ tr[a] = Started(i)
                           /\ \A b \in (a + 1)..(f - 1) : tr[b].k = "error"

\* C13: after a worker has ended on a segment timeout, _init_tts_engine runs
\* before a worker started later issues its first speech request.
C13_ReinitAfterTimeout ==
    [][\A w \in Gens :
          (requests[w] = <<>> /\ requests'[w] # <<>>) => w \notin since_init.late]_vars

\* C14: once a failure (engine not ready, failed speech call, timeout) has
\* been reported for segment i of a worker, the worker emits no
\* text_segment_finished(i), no text_segment_started after the report and no
\* request for a later segment, and when its run() has returned it has
\* emitted finished.
C14_FailureAborts ==
    \A w \in Gens :
        \A j \in Kinds(trace[w], "error") :
            LET tr == trace[w]
                i == tr[j].i
            IN /\ \A a \in Kinds(tr, "segfinished") : tr[a].i # i
               /\ \A a \in Kinds(tr, "started") : a < j
               /\ Len(requests[w]) = i + 1
               /\ wpc[w] = "done" => Kinds(tr, "finished") # {}

\* the speech call for the second segment of a worker has failed and the
\* worker, not stopped, still waits for that segment
C14_Witness ==
    \E w \in Gens :
        /\ wpc[w] = "wait"
        /\ ~stop_requested[w]
        /\ wi[w] = 1
        /\ \E j \in Kinds(trace[w], "error") : trace[w][j].i = 1

\* C15: when the engine check at the start of _start_tts_with_segments, the
\* check after stop_reading, or the reinitialization after a failed
\* pre-speak test fails, the function returns with a failure message and
\* without a worker; a pass that ended without a worker never gets one and
\* has emitted nothing.
C15_NoWorkerOnInitFailure ==
    [][\A g \in Gens :
          /\ (\/ start_tts_checked(g) /\ ~ret[g]
              \/ start_tts_rechecked(g) /\ ~ret[g]
              \/ start_tts_retry(g) /\ ~(ret[g] /\ tts_engine # "none"))
             => /\ pc'[g] = <<"end">>
                /\ wpc'[g] = "none"
                /\ status' = "ttsfail"
          /\ (pc[g] = <<"end">> /\ wpc[g] = "none")
             => /\ wpc'[g] = "none"
                /\ trace'[g] = <<>>
                /\ requests'[g] = <<>>]_vars

\* a pass that recognised text has ended without a worker, the engine being
\* None after the pre-speak test and the reinitialization both failed
C15_Witness ==
    \E g \in Gens :
        /\ pc[g] = <<"end">>
        /\ nsegs[g] > 0
        /\ wpc[g] = "none"
        /\ status = "ttsfail"
        /\ tts_engine = "none"
        /\ fails = 2

\* labels of the frames in which the engine speaks (say + runAndWait)
SpeakLabels == {"speaking", "pretest", "pretest2"}

\* C16: when a worker is started, every earlier worker still in its loop has
\* stop_requested set and the engine was reinitialized after its last stop();
\* the engine is never used to speak between a stop() and the next
\* _init_tts_engine.
C16_GenerationDiscipline ==
    [][/\ \A g \in Gens :
             (wpc[g] = "none" /\ wpc'[g] = "top")
             => /\ \A v \in Gens \ {g} : InLoop(v) => stop_requested[v]
                /\ ~since_init.stopped
       /\ \A t \in Threads :
             (pc'[t] # pc[t] /\ Head(pc'[t]) \in SpeakLabels)
             => ~since_init.stopped]_vars

C18_AtMostOnePolygon == Len(highlight_boxes) <= 1

\* the polygon of a second segment is highlighted, on a page other than the
\* first and after a zoom
C18_Witness ==
    /\ Len(highlight_boxes) = 1
    /\ highlight_boxes[1].index > 0
    /\ current_page > 0
    /\ zoom_factor.up > 0

\* the finished signal of worker g has been emitted and taken by the event
\* loop
FinishedHandled(g) ==
    /\ wpc[g] \in {"done", "freed"}
    /\ \A j \in 1..Len(mainQ) : ~(mainQ[j].k = "finished" /\ mainQ[j].w = g)

\* C19: handling a finished notification empties the highlight; a polygon is
\* highlighted only for a worker whose finished notification has not been
\* handled yet, and that worker is later than every worker whose finished
\* notification has been handled (recognition passes that do not overlap
\* start their workers in the order of their numbers).
C19_NoHighlightAfterEnd ==
    [][/\ Dispatch("finished") => highlight_boxes' = <<>>
       /\ highlight_boxes' # <<>>
          => \A g \in Gens : FinishedHandled(g)' => highlight_boxes'[1].by > g]_vars

\* worker 1 has ended, its finished notification has been handled and it
\* has been freed, and the highlight is the polygon of a segment of worker 2
C19_Witness ==
    /\ FinishedHandled(1)
    /\ \A j \in 1..Len(mainQ) : mainQ[j].w # 1
    /\ highlight_boxes # <<>>
    /\ highlight_boxes[1].by = 2

\* C20: handling a text_segment_finished, finished or error notification
\* leaves the highlight empty.
C20_ClearedOnNotification ==
    [][\A k \in {"segfinished", "finished", "error"} :
          Dispatch(k) => highlight_boxes' = <<>>]_vars

\* C21: handling text_segment_started of the current worker w makes the
\* highlight the polygon of the segment w is at (its loop index), taken from
\* the boxes of w's own recognition pass; a highlighted polygon always
\* belongs to the pass of the worker it was set for.
C21_HighlightOfSpokenSegment ==
    [][/\ (Dispatch("started") /\ Head(mainQ).w = tts_worker)
          => LET w == Head(mainQ).w
             IN highlight_boxes' = <<Box(w, wi[w], w)>>
       /\ highlight_boxes' # <<>>
          => highlight_boxes'[1].pass = highlight_boxes'[1].by]_vars

\* (row, centroid x) of a polygon, row = floor(centroid y / 20)
RowKey(box) == <<center(box, 2) \div 20, center(box, 1)>>

\* C22: the sequence _run_ocr builds is ascending by (row, centroid x) with
\* row = floor(centroid y / 20): of two entries the one in the lower row
\* comes first, and within a row the one with the smaller centroid x.
C22_ReadingOrder ==
    \A j \in 1..Len(filtered_ocr_boxes) : \A k \in j..Len(filtered_ocr_boxes) :
        KeyLeq(RowKey(filtered_ocr_boxes[j]), RowKey(filtered_ocr_boxes[k]))

\* the detector returned centroid (50, 8) before centroid (10, 15), both
\* with text and confidence 0.6: the sequence has the x = 10 entry first
C22_Witness ==
    /\ result = <<[box |-> Rect(40, 3), text |-> <<"a">>, confidence |-> 6],
                  [box |-> Rect(0, 10), text |-> <<"a">>, confidence |-> 6]>>
    /\ filtered_ocr_boxes = <<Rect(0, 10), Rect(40, 3)>>

\* C23: the sequence holds exactly the detected lines with confidence 0.5
\* or higher and non-blank text: as many entries as there are such lines,
\* and every entry is such a line.
C23_ConfidenceThreshold ==
    /\ Len(filtered_ocr_boxes) =
          Cardinality({j \in 1..Len(result) :
                          result[j].confidence >= 5 /\ keep(result[j].text)})
    /\ \A k \in 1..Len(filtered_ocr_boxes) :
          \E j \in 1..Len(result) :
              /\ result[j].confidence >= 5
              /\ result[j].box = filtered_ocr_boxes[k]
              /\ result[j].text = filtered_text_segments[k]

\* C24: the text list and the polygon list built by _run_ocr have the same
\* length, every text has a character that is not a space, and text k and
\* polygon k are the text and the polygon of one detected line.
C24_NoBlankSegments ==
    /\ Len(filtered_text_segments) = Len(filtered_ocr_boxes)
    /\ \A k \in 1..Len(filtered_text_segments) :
          /\ \E c \in 1..Len(filtered_text_segments[k]) :
                filtered_text_segments[k][c] # " "
          /\ \E j \in 1..Len(result) :
                /\ result[j].text = filtered_text_segments[k]
                /\ result[j].box = filtered_ocr_boxes[k]

\* the detector returned a line of one space and a line with a letter, both
\* with confidence 0.6: the sequence is the second line alone
C24_Witness ==
    /\ result = <<[box |-> Rect(0, 3), text |-> <<" ">>, confidence |-> 6],
                  [box |-> Rect(40, 3), text |-> <<"a">>, confidence |-> 6]>>
    /\ filtered_text_segments = <<<<"a">>>>
    /\ filtered_ocr_boxes = <<Rect(40, 3)>>

\* C25: a worker emits text_segment_finished(i), and the request for the
\* segment after i, only when the speech call for its segment i has
\* returned on the main thread.
C25_ContinuesAfterSpeech ==
    [][\A w \in Gens :
          /\ (Len(trace'[w]) = Len(trace[w]) + 1
              /\ trace'[w][Len(trace'[w])].k = "segfinished")
             => trace'[w][Len(trace'[w])].i \in spoken[w]
          /\ (Len(requests'[w]) = Len(requests[w]) + 1
              /\ requests'[w][Len(requests'[w])] > 0)
             => (requests'[w][Len(requests'[w])] - 1) \in spoken[w]]_vars

\* request_speak signals of worker w that wait in the event loop or are
\* being handled by on_request_speak
Outstanding(w) ==
    Cardinality({j \in 1..Len(mainQ) : mainQ[j].k = "request" /\ mainQ[j].w = w})
    + (IF req.w = w THEN 1 ELSE 0)

\* C26: a worker that left its loop without stop, failure or timeout has
\* issued the requests 0, 1, ..., N-1, one for each segment; no worker ever
\* has more than one request in the event loop, nor a request issued before
\* the segment before it was reported finished.
C26_OneRequestPerSegment ==
    \A w \in Gens :
        /\ CleanRun(w) => requests[w] = [j \in 1..nsegs[w] |-> j - 1]
        /\ Outstanding(w) <= 1
        /\ Len(requests[w]) <= Cardinality(Kinds(trace[w], "segfinished")) + 1

\* a worker of two segments has read both and left its loop
C26_Witness ==
    \E w \in Gens :
        /\ CleanRun(w)
        /\ nsegs[w] = 2
        /\ requests[w] = <<0, 1>>
        /\ Kinds(trace[w], "finished") # {}

\* thread t takes a step in which _init_tts_engine fails: pyttsx3.init() or
\* the voice/rate setup raises, or the ping of an engine just built raises
\* (a failure of the engine in a speech call or in the second pre-speak test
\* is not a failure of _init_tts_engine)
InitFailed(t) ==
    /\ pc'[t] # pc[t]
    /\ fails' > fails
    /\ Top(t) \notin {"speaking", "pretest2"}
    /\ Head(pc'[t]) # "ping"

\* C27: a step in which _init_tts_engine fails leaves tts_engine None and
\* returns False to the caller.
C27_InitFailureLeavesNone ==
    [][\A t \in Threads :
          InitFailed(t) => tts_engine' = "none" /\ ~ret'[t]]_vars

\* stop_reading on the main thread has called _init_tts_engine on the engine
\* it held, the call has failed, and the engine is None
C27_Witness ==
    /\ Top(MainThread) = "sr5"
    /\ ~ret[MainThread]
    /\ tts_engine = "none"
    /\ fails = 1

\* labels at which a caller continues after _ensure_tts_engine_ready
EnsureConts == {"rs1", "st1", "st2r"}

\* thread t takes the step that calls _ensure_tts_engine_ready
EnsureCall(t) ==
    /\ Top(t) # "ping"
    /\ pc'[t] # pc[t]
    /\ \/ Head(pc'[t]) \in EnsureConts
       \/ Head(pc'[t]) = "ping" /\ pc'[t][2] \in EnsureConts

\* C28: _ensure_tts_engine_ready returns True at once only with an engine,
\* and then nothing was reinitialized; otherwise (no engine, or the probe
\* raised) _init_tts_engine ran: it failed, leaving no engine and returning
\* False, or built an engine and went on to its ping, whose result the
\* caller gets.
C28_EnsureReady ==
    [][\A t \in Threads :
          EnsureCall(t)
          => IF Head(pc'[t]) \in EnsureConts /\ ret'[t]
             THEN /\ tts_engine = "ok"
                  /\ UNCHANGED <<tts_engine, fails, since_init>>
             ELSE /\ since_init' = Fresh
                  /\ Head(pc'[t]) = "ping" => tts_engine' = "ok"
                  /\ Head(pc'[t]) \in EnsureConts => tts_engine' = "none"]_vars

\* on_request_speak got True from _ensure_tts_engine_ready for an engine
\* that exists, and nothing was reinitialized since a worker timed out
C28_Witness ==
    /\ Top(MainThread) = "rs1"
    /\ ret[MainThread]
    /\ tts_engine = "ok"
    /\ since_init.timed_out

\* C29: every worker that has been started leaves its loop and emits
\* finished, whether or not anybody acknowledges its requests.
C29_RunTerminates ==
    \A w \in Gens :
        InLoop(w) ~> (wpc[w] = "done" /\ Kinds(trace[w], "finished") # {})

\* a worker of two segments has ended on the timeout of its first request,
\* which nobody acknowledged
C29_Witness ==
    \E w \in Gens :
        /\ TimedOut(w)
        /\ nsegs[w] = 2
        /\ wi[w] = 0
        /\ ~segment_completed[w]
        /\ trace[w] = <<Started(0), Note("error", 0), Finished>>

\* C30: highlight_boxes is written by the main thread only: no step of an
\* OCR thread changes it.
C30_HighlightSingleWriter ==
    [][highlight_boxes' # highlight_boxes
       => \A g \in Gens : pc'[g] = pc[g]]_vars

\* C31: every worker whose run loop has not exited is the one MainWindow
\* tts_worker refers to, so stop_reading and the isRunning tests reach it.
C31_RunningWorkerReferenced ==
    \A w \in Gens : wpc[w] \in {"top", "wait"} => tts_worker = w

\* C32: a worker emits text_segment_finished(i) only with its completion
\* flag set after the request for segment i, having seen neither a stop
\* request at line 64 nor a timeout at line 67; the warning branch of lines
\* 71-72 (flag unset, not stopped, not timed out) is never taken.
C32_FinishedOnlyOnCompletion ==
    [][\A w \in Gens :
          (/\ Len(trace'[w]) = Len(trace[w]) + 1
           /\ trace'[w][Len(trace'[w])].k = "segfinished")
          => /\ segment_completed[w]
             /\ wpc[w] = "l71"
             /\ trace'[w][Len(trace'[w])].i = requests[w][Len(requests[w])]
             /\ Kinds(trace[w], "error") = {}]_vars

\* the worker has emitted text_segment_finished(0) for a segment whose
\* flag was set, and is at the top of its loop for segment 1
C32_Witness ==
    \E w \in Gens :
        /\ wpc[w] = "top"
        /\ wi[w] = 1
        /\ trace[w][Len(trace[w])] = Note("segfinished", 0)
        /\ segment_completed[w]
        /\ ~stop_requested[w]

\* on_request_speak calls on_segment_complete() on worker w for its request
\* of segment i: in one of the three checks, when the request is taken from
\* the queue, or after the engine check or the speech call
AckFor(w, i) ==
    /\ segment_completed'[w]
    /\ trace'[w] = trace[w]
    /\ IF Top(MainThread) \in {"rs1", "speaking"}
       THEN /\ req = [w |-> w, i |-> i]
            /\ req' = NoReq
       ELSE /\ Top(MainThread) \in {"loop", "pe"}
            /\ mainQ # <<>>
            /\ Head(mainQ) = Event("request", w, i)
            /\ mainQ' = Tail(mainQ)
            /\ pc' = pc

\* C33: the acknowledgement of the request for segment i is never taken for
\* a later segment: when on_segment_complete is called for request i the
\* worker still waits on segment i or has left its loop.
C33_AckForOwnSegment ==
    [][\A w \in Gens : \A i \in 0..MaxSegs :
          AckFor(w, i) => \/ wpc[w] = "wait" /\ wi[w] = i
                          \/ wpc[w] = "done"]_vars

\* segment 0 and segment 1 of a worker have both been spoken and
\* acknowledged; the worker still waits on segment 1 with its flag set
C33_Witness ==
    \E w \in Gens :
        /\ wpc[w] = "wait"
        /\ wi[w] = 1
        /\ segment_completed[w]
        /\ spoken[w] = {0, 1}

\* the frames of thread t hold a stop_reading that found a running worker
\* and has not returned
Stopping(t) ==
    \E k \in 1..Len(pc[t]) : pc[t][k] \in {"sr2", "sr3", "sr4", "sr5"}

\* C34: stop_reading called with no worker running (tts_worker None or not
\* running) sets is_stopping to False and changes nothing else: the engine
\* is neither stopped nor reinitialized, highlight and tts_worker stay; a
\* second call in a row therefore changes nothing at all.
C34_StopWithoutWorker ==
    [][(/\ Top(MainThread) = "sr0"
        /\ ~isRunning(tts_worker)
        /\ pc'[MainThread] # pc[MainThread])
       => /\ pc'[MainThread] = Tail(pc[MainThread])
          /\ ~is_stopping'
          /\ UNCHANGED <<was_stopped, wpc, wi, nsegs, stop_requested,
                         segment_completed, timeout_counter, trace, requests,
                         mainQ, tts_worker, tts_engine, ret, req, waitw,
                         fails, aborted, highlight_boxes, current_ocr_boxes,
                         status, since_init, spoken>>
          /\ UNCHANGED viewVars
          /\ UNCHANGED ocrVars]_vars

\* a stop_reading that found no running worker has returned inside the
\* processEvents of a stop_reading in progress, and has reset is_stopping
C34_Witness ==
    /\ Top(MainThread) = "pe"
    /\ Stopping(MainThread)
    /\ ~is_stopping
    /\ tts_worker # 0

\* C35: when a stop_reading that found a running worker returns, that worker
\* has stop_requested set, tts_worker is None, the highlight is empty,
\* is_stopping is False and the engine is the one _init_tts_engine just
\* built, or None if it failed; and is_stopping is True only while such a
\* stop_reading is in progress.
C35_StopPostcondition ==
    /\ [][\A t \in Threads :
            (Top(t) = "sr5" /\ pc'[t] = Tail(pc[t]))
            => /\ tts_worker' = 0
               /\ highlight_boxes' = <<>>
               /\ ~is_stopping'
               /\ tts_engine' = (IF ret[t] THEN "ok" ELSE "none")
               /\ \A w \in Gens : tts_worker = w => stop_requested'[w]]_vars
    /\ [](is_stopping => \E t \in Threads : Stopping(t))

\* a polygon as highlight_text_box wants it: a list that is not empty, each
\* element a list or tuple of two
ValidPolygon(v) ==
    /\ v.type = "list"
    /\ v.items # <<>>
    /\ \A k \in 1..Len(v.items) :
          \/ v.items[k] = [type |-> "list", len |-> 2]
          \/ v.items[k] = [type |-> "tuple", len |-> 2]

\* C36: highlight_text_box with an invalid polygon (empty, not a list, or
\* with an element that is not a list or tuple of two) leaves the highlight
\* empty, whatever was highlighted before; with a valid polygon it makes
\* that polygon the only highlighted one.
C36_HighlightValidation ==
    /\ [][box_coords' # box_coords
            => highlight_boxes' = (IF ValidPolygon(box_coords')
                                   THEN <<box_coords'>> ELSE <<>>)]_vars
    /\ [](highlight_boxes # <<>>
            => ValidPolygon(box_coords) /\ highlight_boxes = <<box_coords>>)

\* a tuple of two [x, y] points was passed last on a loaded document, and
\* nothing is highlighted
C36_Witness ==
    /\ box_coords.type = "tuple"
    /\ Len(box_coords.items) = 2
    /\ \A k \in 1..2 : box_coords.items[k] = [type |-> "list", len |-> 2]
    /\ highlight_boxes = <<>>
    /\ page_count > 0

\* C37: with a document of P >= 1 pages loaded the page index stays in
\* 0..P-1 under next_page, prev_page and go_to_page: next_page on the last
\* page and prev_page on the first change nothing, go_to_page with an index
\* outside 0..P-1 returns False and leaves the page, with one inside it
\* returns True and shows that page.
C37_PageInRange ==
    /\ [](page_count >= 1 => current_page \in 0..(page_count - 1))
    /\ [][(page_num' # page_num \/ ret'[MainThread] # ret[MainThread])
            => IF page_num' \in 0..(page_count - 1)
               THEN current_page' = page_num' /\ ret'[MainThread]
               ELSE current_page' = current_page /\ ~ret'[MainThread]]_vars

\* go_to_page was called with the index one past the end and returned
\* False; the last page of the longest document is still shown
C37_Witness ==
    /\ page_count = MaxPages
    /\ current_page = page_count - 1
    /\ page_num = page_count
    /\ ~ret[MainThread]

====
